---------------------------- MODULE Spec2Model ----------------------------
(***************************************************************************)
(* Model of the P&ID diagram viewport of the maximo-extension-ui app:      *)
(*   - PidViewer  (src/apps/maximo-extension-ui/src/components/            *)
(*                 ThemeToggle.tsx, lines 66-244): pan / zoom / fit /      *)
(*                 reset / keyboard zoom over a fetched SVG, with the      *)
(*                 enhanceAccessibility of its variant at lines 247-419;   *)
(*   - PidTiles   (src/unnamed/part_003): the same viewport with a         *)
(*                 debounced, culled tile of the element index;            *)
(*   - applyPidOverlay (src/apps/maximo-extension-ui/src/lib/pidOverlay.ts)*)
(*                 and its caller, the PidTab overlay effect               *)
(*                 (src/unnamed/part_031).                                 *)
(*                                                                         *)
(* Three specifications share the module, one per component: SpecViewer,   *)
(* SpecTiles and SpecOverlay.  Each leaves the variables of the other two  *)
(* at their initial values.  SpecTilesLive is SpecTiles for one diagram    *)
(* with a clock that advances and timers that fire.                        *)
(*                                                                         *)
(* Numbers.  JavaScript numbers are modelled as exact rationals extended   *)
(* with the IEEE-754 specials: <<n, d>> with d > 0 is n/d in lowest terms, *)
(* <<1, 0>> is +Infinity, <<-1, 0>> is -Infinity and <<0, 0>> is NaN.      *)
(* Rounding error is abstracted away (1.1 is exactly 11/10) and the sign   *)
(* of zero is not kept; frames and containers have non-negative sizes, so  *)
(* no division by a negative zero occurs.                                  *)
(***************************************************************************)
EXTENDS Integers, Sequences, FiniteSets, TLC

VARIABLES
    \* ---- PidViewer (ThemeToggle.tsx 88-244) ----
    pv_src,        \* the src prop
    pv_highlight,  \* the highlight prop
    pv_inflight,   \* fetches not yet settled, each with the props its closure captured
    pv_svg,        \* svgRef.current: the loaded source, or "none" for null
    pv_rootClass,  \* the hl-* classes on the mounted svg root
    pv_scale,      \* useState scale
    pv_translate,  \* useState translate
    pv_dragging,   \* dragging.current
    pv_dragStart,  \* dragStart.current
    pv_container,  \* the container's measured box
    pv_aria,       \* per element (0 is the svg root), its role / aria-label / tabindex
    pv_ops,        \* operations performed so far
    pv_last        \* the last operation and its event data

pvVars == <<pv_src, pv_highlight, pv_inflight, pv_svg, pv_rootClass, pv_scale,
            pv_translate, pv_dragging, pv_dragStart, pv_container, pv_aria, pv_ops,
            pv_last>>

VARIABLES
    \* ---- PidTiles (part_003) ----
    pt_src,           \* the src prop
    pt_highlight,     \* the highlight prop
    pt_inflight,      \* load() calls whose fetch has not settled
    pt_elements,      \* elementsRef.current: the index of {el, bbox}
    pt_scale,         \* useState scale
    pt_translate,     \* useState translate
    pt_dragging,      \* dragging.current
    pt_dragStart,     \* dragStart.current
    pt_container,     \* the container's measured box
    pt_mounted,       \* the component is mounted: its refs hold their DOM nodes
    pt_timers,        \* outstanding window.setTimeout timers with their closures
    pt_debounceTimer, \* debounceTimer.current (0 for undefined)
    pt_viewBox,       \* the viewBox attribute of the viewport svg (<<>> when unset)
    pt_tile,          \* the children of the viewport svg: the rendered clones
    pt_toasts,        \* number of toastError calls
    pt_sinceEvent,    \* ms since the last viewport-change trigger (capped)
    pt_recomputes,    \* updateTiles calls since the last viewport-change trigger
    pt_burst,         \* viewport-change triggers since the last updateTiles run
    pt_ops,           \* operations performed so far
    pt_last           \* the last operation and its event data

ptVars == <<pt_src, pt_highlight, pt_inflight, pt_elements, pt_scale, pt_translate,
            pt_dragging, pt_dragStart, pt_container, pt_mounted, pt_timers,
            pt_debounceTimer,
            pt_viewBox, pt_tile, pt_toasts, pt_sinceEvent, pt_recomputes, pt_burst,
            pt_ops, pt_last>>

(***************************************************************************)
(* State of the overlay compositor: applyPidOverlay on a diagram, called   *)
(* directly or by the overlay effect of PidTab, and the applyOverlay of    *)
(* PidViewer.                                                              *)
(***************************************************************************)
VARIABLES
    ov_host,           \* "direct": a caller of applyPidOverlay; "tab": PidTab;
                       \* "viewer": PidViewer with its overlay prop
    ov_scene,          \* the diagram document
    ov_mounted,        \* the container holds the diagram's svg root
    ov_inflight,       \* the diagram fetch of PidViewer has not settled yet
    ov_classes,        \* per element, its classList tokens in order
    ov_layers,         \* the g[data-badge-layer] children of the root, in order
    ov_result,         \* what the last call of applyPidOverlay returned
    ov_data,           \* PidTab: the overlay query's data
    ov_showSimFails,   \* PidTab state
    ov_showSourcePath, \* PidTab state
    ov_warnings,       \* PidTab state
    ov_overlay,        \* PidViewer: the overlay prop
    ov_fetchOverlay,   \* PidViewer: the overlay prop of the render that fetched
    ov_highlighted,    \* PidViewer: the highlighted ref
    ov_ops,            \* operations so far
    ov_last            \* the last operation and the overlay it passed

ovVars == <<ov_host, ov_scene, ov_mounted, ov_inflight, ov_classes, ov_layers,
            ov_result, ov_data, ov_showSimFails, ov_showSourcePath, ov_warnings,
            ov_overlay, ov_fetchOverlay, ov_highlighted, ov_ops, ov_last>>

vars == <<pvVars, ptVars, ovVars>>

(***************************************************************************)
(* Bounds of the model.                                                    *)
(***************************************************************************)
\* Number of user/environment operations explored per component run.
MaxOps == 3

\* Operations on the overlay compositor in one behaviour.
MaxOverlayOps == 3

\* Grain of the clock, in ms: time advances in steps of TickMs.
TickMs == 25

(***************************************************************************)
(* JavaScript number arithmetic.                                           *)
(***************************************************************************)
Abs(n) == IF n < 0 THEN -n ELSE n

Sign(n) == IF n > 0 THEN 1 ELSE IF n < 0 THEN -1 ELSE 0

RECURSIVE GCD(_, _)
GCD(a, b) == IF b = 0 THEN a ELSE GCD(b, a % b)

\* The number n/d in canonical form (d = 0 gives an infinity or NaN).
Num(n, d) ==
    IF d = 0 THEN <<Sign(n), 0>>
    ELSE LET g == GCD(Abs(n), Abs(d))
         IN  <<Sign(d) * (n \div g), Abs(d) \div g>>

NaN == <<0, 0>>

FromInt(i) == <<i, 1>>

IsNaN(a) == a = NaN

IsInf(a) == a[2] = 0 /\ a[1] # 0

IsFinite(a) == a[2] > 0

Neg(a) == <<-a[1], a[2]>>

\* a * b
Mul(a, b) ==
    IF IsNaN(a) \/ IsNaN(b) THEN NaN
    ELSE IF ~IsFinite(a) \/ ~IsFinite(b) THEN Num(a[1] * b[1], a[2] * b[2])
    ELSE LET g1 == GCD(Abs(a[1]), b[2])
             g2 == GCD(Abs(b[1]), a[2])
         IN  Num((a[1] \div g1) * (b[1] \div g2), (a[2] \div g2) * (b[2] \div g1))

\* 1 / a
Recip(a) == Num(a[2], a[1])

\* a / b
Div(a, b) == Mul(a, Recip(b))

\* a + b
Add(a, b) ==
    IF IsNaN(a) \/ IsNaN(b) THEN NaN
    ELSE IF IsInf(a) THEN (IF IsInf(b) /\ b # a THEN NaN ELSE a)
    ELSE IF IsInf(b) THEN b
    ELSE LET g == GCD(a[2], b[2])
         IN  Num(a[1] * (b[2] \div g) + b[1] * (a[2] \div g), (a[2] \div g) * b[2])

\* a - b
Sub(a, b) == Add(a, Neg(b))

\* a < b (false when either is NaN)
Lt(a, b) ==
    /\ ~IsNaN(a)
    /\ ~IsNaN(b)
    /\ IF ~IsFinite(a) /\ ~IsFinite(b) THEN a[1] < b[1]
       ELSE a[1] * b[2] < b[1] * a[2]

\* a > b
Gt(a, b) == Lt(b, a)

\* a <= b
Le(a, b) == ~IsNaN(a) /\ ~IsNaN(b) /\ ~Lt(b, a)

\* a === b on numbers: NaN equals nothing, itself included.
NumEq(a, b) == ~IsNaN(a) /\ ~IsNaN(b) /\ a = b

\* Math.min(a, b) and Math.max(a, b): NaN when either argument is NaN.
MathMin(a, b) == IF IsNaN(a) \/ IsNaN(b) THEN NaN ELSE IF Lt(b, a) THEN b ELSE a

MathMax(a, b) == IF IsNaN(a) \/ IsNaN(b) THEN NaN ELSE IF Gt(b, a) THEN b ELSE a


(***************************************************************************)
(* Scene graphs.  An element has a tag, an id ("" for none), its class     *)
(* tokens, its parent (0 is the svg root), its own geometry box            *)
(* <<x, y, width, height>> (shapes only), its transform attribute          *)
(* <<s, tx, ty>> standing for the map p |-> s * p + (tx, ty), and a title  *)
(* text.  Elements are listed in document order.                           *)
(***************************************************************************)
identityTf == <<1, 0, 0>>

Shape(id, cls, parent, box) ==
    [tag |-> "rect", id |-> id, cls |-> cls, parent |-> parent, box |-> box,
     tf |-> identityTf, text |-> ""]

Group(id, cls, parent, tf) ==
    [tag |-> "g", id |-> id, cls |-> cls, parent |-> parent, box |-> <<>>,
     tf |-> tf, text |-> ""]

Title(parent, text) ==
    [tag |-> "title", id |-> "", cls |-> <<>>, parent |-> parent, box |-> <<>>,
     tf |-> identityTf, text |-> text]

(***************************************************************************)
(* Documents served for a source identifier.  viewBox holds the pieces of  *)
(* vb.split(' ') after Number(): the usual "x y w h" gives four numbers,   *)
(* a comma-separated "x,y,w,h" gives the single piece NaN, and <<>> is an  *)
(* svg with no viewBox attribute.  hasSvg = FALSE is a body in which       *)
(* querySelector('svg') finds nothing (an error page, plain text).  els    *)
(* are the descendants of the svg: "wide" has a titled rect, a titled      *)
(* group and a rect with an empty title; "small" has a title of the root   *)
(* itself and a title two groups deep.                                     *)
(***************************************************************************)
ViewerDocs ==
    [ wide   |-> [hasSvg |-> TRUE,
                  viewBox |-> <<FromInt(0), FromInt(0), FromInt(100), FromInt(50)>>,
                  els |-> << Shape("v1", <<>>, 0, <<0, 0, 5, 5>>),
                             Title(1, "Valve 1"),
                             Group("grp", <<>>, 0, identityTf),
                             Title(3, "Pump 1"),
                             Shape("inner", <<>>, 3, <<10, 10, 5, 5>>),
                             Title(5, "") >>],
      small  |-> [hasSvg |-> TRUE,
                  viewBox |-> <<FromInt(-10), FromInt(5), FromInt(20), FromInt(10)>>,
                  els |-> << Title(0, "Overview"),
                             Group("outer", <<>>, 0, identityTf),
                             Group("", <<>>, 2, identityTf),
                             Title(3, "Nested") >>],
      novb   |-> [hasSvg |-> TRUE,  viewBox |-> <<>>,
                  els |-> << Shape("only", <<>>, 0, <<0, 0, 5, 5>>) >>],
      comma  |-> [hasSvg |-> TRUE,  viewBox |-> <<NaN>>, els |-> <<>>],
      nosvg  |-> [hasSvg |-> FALSE, viewBox |-> <<>>, els |-> <<>>] ]

ViewerSrcs == DOMAIN ViewerDocs

\* The container: clientWidth, clientHeight and the origin of
\* getBoundingClientRect().  A container that has not been laid out (or whose
\* parent has no height) measures 0.
ContainerSizes ==
    { [w |-> 200,  h |-> 100,  left |-> 0,  top |-> 0],
      [w |-> 2000, h |-> 1000, left |-> 10, top |-> 20],
      [w |-> 0,    h |-> 0,    left |-> 0,  top |-> 0] }

\* Positions (clientX, clientY) of the pointer events that are explored.
MousePoints == { <<0, 0>>, <<60, 40>> }

\* deltaY of the wheel events that are explored.
WheelDeltas == { -100, 0, 100 }

\* Keys of the keyboard events that are explored.
Keys == { "+", "=", "-", "a" }

Highlights == { "null", "primary", "warning" }

(***************************************************************************)
(* The viewport arithmetic shared by PidViewer and PidTiles (the two       *)
(* components carry the same handlers, line for line).                     *)
(***************************************************************************)
\* The k-th of [x, y, w, h] = vb.split(' ').map(Number): a missing element is
\* undefined, which every arithmetic operator turns into NaN.
VbPiece(vb, k) == IF k <= Len(vb) THEN vb[k] ELSE NaN

\* fitToScreen with Math.max for Math.min: the frame covers the container
\* instead of fitting into it.
fitTransformCover(container, vb) ==
    LET x == VbPiece(vb, 1)
        y == VbPiece(vb, 2)
        w == VbPiece(vb, 3)
        h == VbPiece(vb, 4)
        cw == FromInt(container.w)
        ch == FromInt(container.h)
        s == MathMax(Div(cw, w), Div(ch, h))
    IN  [scale |-> s,
         translate |->
           [x |-> Add(Mul(Neg(x), s), Div(Sub(cw, Mul(w, s)), FromInt(2))),
            y |-> Add(Mul(Neg(y), s), Div(Sub(ch, Mul(h, s)), FromInt(2)))]]

\* fitToScreen after its early returns: the scale and translate it sets.
fitTransform(container, vb) ==
    LET x == VbPiece(vb, 1)
        y == VbPiece(vb, 2)
        w == VbPiece(vb, 3)
        h == VbPiece(vb, 4)
        cw == FromInt(container.w)
        ch == FromInt(container.h)
        scaleX == Div(cw, w)
        scaleY == Div(ch, h)
        s == MathMin(scaleX, scaleY)
    IN  [scale |-> s,
         translate |->
           [x |-> Add(Mul(Neg(x), s), Div(Sub(cw, Mul(w, s)), FromInt(2))),
            y |-> Add(Mul(Neg(y), s), Div(Sub(ch, Mul(h, s)), FromInt(2)))]]

zoomInFactor == <<11, 10>>

zoomOutFactor == <<9, 10>>

minScale == <<1, 10>>

maxScale == <<10, 1>>

\* const zoomFactor = delta > 0 ? 1.1 : 0.9, with delta = -e.deltaY
zoomFactor(deltaY) == IF -deltaY > 0 THEN zoomInFactor ELSE zoomOutFactor

\* Math.min(Math.max(scale * zoomFactor, 0.1), 10)
clampScale(s) == MathMin(MathMax(s, minScale), maxScale)

\* handleWheel: the scale and translate it sets for a wheel event at client
\* position p with the given deltaY.
wheelTransform(scale, translate, container, p, deltaY) ==
    LET offsetX == FromInt(p[1] - container.left)
        offsetY == FromInt(p[2] - container.top)
        newScale == clampScale(Mul(scale, zoomFactor(deltaY)))
        scaleRatio == Div(newScale, scale)
    IN  [scale |-> newScale,
         translate |->
           [x |-> Sub(offsetX, Mul(scaleRatio, Sub(offsetX, translate.x))),
            y |-> Sub(offsetY, Mul(scaleRatio, Sub(offsetY, translate.y)))]]

\* startDrag: dragStart = { x: e.clientX - translate.x, y: e.clientY - translate.y }
dragOrigin(translate, p) ==
    [x |-> Sub(FromInt(p[1]), translate.x), y |-> Sub(FromInt(p[2]), translate.y)]

\* onDrag: { x: e.clientX - dragStart.x, y: e.clientY - dragStart.y }
dragTranslate(dragStart, p) ==
    [x |-> Sub(FromInt(p[1]), dragStart.x), y |-> Sub(FromInt(p[2]), dragStart.y)]

\* handleKey: the functional update of scale for a key.
keyScale(s, key) ==
    IF key \in {"+", "="} THEN MathMin(Mul(s, zoomInFactor), maxScale)
    ELSE IF key = "-" THEN MathMax(Mul(s, zoomOutFactor), minScale)
    ELSE s

identityTranslate == [x |-> FromInt(0), y |-> FromInt(0)]


(***************************************************************************)
(* PidViewer.                                                              *)
(***************************************************************************)
\* An operation and its event data: the pointer position, deltaY and, in src,
\* the source that was loaded (for a load) or the key (for a key press).
Event(op, p, d, src) == [op |-> op, p |-> p, d |-> d, src |-> src]

NoEvent == Event("mount", <<0, 0>>, 0, "")

\* applyHighlight: the hl-* classes of the svg root for a highlight value.
highlightClasses(h) ==
    IF h = "primary" THEN {"hl-primary"}
    ELSE IF h = "warning" THEN {"hl-warning"}
    ELSE {}

\* The attributes enhanceAccessibility writes; "" is an attribute that is not set.
NoAria == [role |-> "", label |-> "", tabindex |-> ""]

\* The largest of a non-empty set of element positions.
LastOf(S) == CHOOSE m \in S : \A n \in S : m >= n

\* An annotation that labels the parent of the title's parent.
enhanceAccessibilityOuter(els) ==
    [i \in 0..Len(els) |->
       LET titles == {j \in DOMAIN els :
                        /\ els[j].tag = "title"
                        /\ els[j].parent # 0
                        /\ els[els[j].parent].parent = i
                        /\ els[j].text # ""}
       IN  [role |-> IF i = 0 THEN "img" ELSE "",
            label |-> IF titles = {} THEN "" ELSE els[LastOf(titles)].text,
            tabindex |-> IF titles = {} THEN "" ELSE "0"]]

\* enhanceAccessibility on a mounted root: role img on the root, and for each
\* title in document order with a non-empty textContent, aria-label and
\* tabindex on its parentElement (a later title of the same parent overwrites
\* the label of an earlier one).
enhanceAccessibility(els) ==
    [i \in 0..Len(els) |->
       LET titles == {j \in DOMAIN els :
                        els[j].tag = "title" /\ els[j].parent = i /\ els[j].text # ""}
       IN  [role |-> IF i = 0 THEN "img" ELSE "",
            label |-> IF titles = {} THEN "" ELSE els[LastOf(titles)].text,
            tabindex |-> IF titles = {} THEN "" ELSE "0"]]

\* Mount: useState initial values, and the [src] effect has issued its fetch.
PvInitWith(src, highlight, container) ==
    /\ pv_src = src
    /\ pv_highlight = highlight
    /\ pv_inflight = {[src |-> pv_src, highlight |-> pv_highlight]}
    /\ pv_svg = "none"
    /\ pv_rootClass = {}
    /\ pv_scale = FromInt(1)
    /\ pv_translate = identityTranslate
    /\ pv_dragging = FALSE
    /\ pv_dragStart = identityTranslate
    /\ pv_container = container
    /\ pv_aria = <<>>
    /\ pv_ops = 0
    /\ pv_last = NoEvent

\* highlight defaults to null; PvSetHighlight reaches the other values.
PvInit == \E src \in ViewerSrcs, c \in ContainerSizes : PvInitWith(src, "null", c)

\* The viewer as it stands while another component is explored.
PvParked == PvInitWith("wide", "null", [w |-> 200, h |-> 100, left |-> 0, top |-> 0])

PvStepEvent(ev) ==
    /\ UNCHANGED <<ptVars, ovVars>>
    /\ pv_ops < MaxOps
    /\ pv_ops' = pv_ops + 1
    /\ pv_last' = ev

PvStep(op, p, d) == PvStepEvent(Event(op, p, d, ""))

\* The src prop changes: the [src] effect runs again and fetches.
PvSetSrc(s) ==
    /\ s # pv_src
    /\ PvStep("src", <<0, 0>>, 0)
    /\ pv_src' = s
    /\ pv_inflight' = pv_inflight \cup {[src |-> s, highlight |-> pv_highlight]}
    /\ UNCHANGED <<pv_highlight, pv_svg, pv_rootClass, pv_scale, pv_translate,
                   pv_dragging, pv_dragStart, pv_container, pv_aria>>

\* The highlight prop changes: the [highlight] effect calls applyHighlight.
PvSetHighlight(h) ==
    /\ h # pv_highlight
    /\ PvStep("highlight", <<0, 0>>, 0)
    /\ pv_highlight' = h
    /\ pv_rootClass' = IF pv_svg = "none" THEN pv_rootClass ELSE highlightClasses(h)
    /\ UNCHANGED <<pv_src, pv_inflight, pv_svg, pv_scale, pv_translate,
                   pv_dragging, pv_dragStart, pv_container, pv_aria>>

\* A fetch settles with the body of its source: the .then handler mounts the
\* body, then calls enhanceAccessibility, applyHighlight and fitToScreen of the
\* render that issued it.
PvFetchResolve(f) ==
    /\ f \in pv_inflight
    /\ PvStepEvent(Event(IF ViewerDocs[f.src].hasSvg /\ ViewerDocs[f.src].viewBox # <<>>
                          THEN "loadfit" ELSE "load", <<0, 0>>, 0, f.src))
    /\ pv_inflight' = pv_inflight \ {f}
    /\ LET doc == ViewerDocs[f.src]
           fit == fitTransform(pv_container, doc.viewBox)
       IN  IF ~doc.hasSvg
           THEN /\ pv_svg' = "none"
                /\ pv_rootClass' = {}
                /\ pv_aria' = <<>>
                /\ UNCHANGED <<pv_scale, pv_translate>>
           ELSE /\ pv_svg' = f.src
                /\ pv_aria' = enhanceAccessibility(doc.els)
                /\ pv_rootClass' = highlightClasses(f.highlight)
                /\ IF doc.viewBox = <<>>
                   THEN UNCHANGED <<pv_scale, pv_translate>>
                   ELSE /\ pv_scale' = fit.scale
                        /\ pv_translate' = fit.translate
    /\ UNCHANGED <<pv_src, pv_highlight, pv_dragging, pv_dragStart, pv_container>>

\* A fetch rejects: the promise chain has no catch, nothing is changed.
PvFetchReject(f) ==
    /\ f \in pv_inflight
    /\ PvStep("reject", <<0, 0>>, 0)
    /\ pv_inflight' = pv_inflight \ {f}
    /\ UNCHANGED <<pv_src, pv_highlight, pv_svg, pv_rootClass, pv_scale, pv_translate,
                   pv_dragging, pv_dragStart, pv_container, pv_aria>>

\* The Fit button.
PvFitToScreen ==
    /\ PvStep("fit", <<0, 0>>, 0)
    /\ IF pv_svg = "none" \/ ViewerDocs[pv_svg].viewBox = <<>>
       THEN UNCHANGED <<pv_scale, pv_translate>>
       ELSE LET fit == fitTransform(pv_container, ViewerDocs[pv_svg].viewBox)
            IN  /\ pv_scale' = fit.scale
                /\ pv_translate' = fit.translate
    /\ UNCHANGED <<pv_src, pv_highlight, pv_inflight, pv_svg, pv_rootClass,
                   pv_dragging, pv_dragStart, pv_container, pv_aria>>

\* A Reset that restores the scale only.
PvResetViewScaleOnly ==
    /\ PvStep("reset", <<0, 0>>, 0)
    /\ pv_scale' = FromInt(1)
    /\ UNCHANGED <<pv_src, pv_highlight, pv_inflight, pv_svg, pv_rootClass,
                   pv_translate, pv_dragging, pv_dragStart, pv_container, pv_aria>>

\* The Reset button.
PvResetView ==
    /\ PvStep("reset", <<0, 0>>, 0)
    /\ pv_scale' = FromInt(1)
    /\ pv_translate' = identityTranslate
    /\ UNCHANGED <<pv_src, pv_highlight, pv_inflight, pv_svg, pv_rootClass,
                   pv_dragging, pv_dragStart, pv_container, pv_aria>>

PvHandleWheel(p, deltaY) ==
    /\ PvStep("wheel", p, deltaY)
    /\ LET z == wheelTransform(pv_scale, pv_translate, pv_container, p, deltaY)
       IN  /\ pv_scale' = z.scale
           /\ pv_translate' = z.translate
    /\ UNCHANGED <<pv_src, pv_highlight, pv_inflight, pv_svg, pv_rootClass,
                   pv_dragging, pv_dragStart, pv_container, pv_aria>>

PvStartDrag(p) ==
    /\ PvStep("mousedown", p, 0)
    /\ pv_dragging' = TRUE
    /\ pv_dragStart' = dragOrigin(pv_translate, p)
    /\ UNCHANGED <<pv_src, pv_highlight, pv_inflight, pv_svg, pv_rootClass, pv_scale,
                   pv_translate, pv_container, pv_aria>>

PvOnDrag(p) ==
    /\ PvStep("mousemove", p, 0)
    /\ pv_translate' = IF pv_dragging THEN dragTranslate(pv_dragStart, p) ELSE pv_translate
    /\ UNCHANGED <<pv_src, pv_highlight, pv_inflight, pv_svg, pv_rootClass, pv_scale,
                   pv_dragging, pv_dragStart, pv_container, pv_aria>>

\* mouseup and mouseleave
PvEndDrag ==
    /\ PvStep("mouseup", <<0, 0>>, 0)
    /\ pv_dragging' = FALSE
    /\ UNCHANGED <<pv_src, pv_highlight, pv_inflight, pv_svg, pv_rootClass, pv_scale,
                   pv_translate, pv_dragStart, pv_container, pv_aria>>

PvHandleKey(key) ==
    /\ PvStepEvent(Event("key", <<0, 0>>, 0, key))
    /\ pv_scale' = keyScale(pv_scale, key)
    /\ UNCHANGED <<pv_src, pv_highlight, pv_inflight, pv_svg, pv_rootClass,
                   pv_translate, pv_dragging, pv_dragStart, pv_container, pv_aria>>

PvNext ==
    \/ \E s \in ViewerSrcs : PvSetSrc(s)
    \/ \E h \in Highlights : PvSetHighlight(h)
    \/ \E f \in pv_inflight : PvFetchResolve(f)
    \/ \E f \in pv_inflight : PvFetchReject(f)
    \/ PvFitToScreen
    \/ PvResetView
    \/ \E p \in MousePoints, dy \in WheelDeltas : PvHandleWheel(p, dy)
    \/ \E p \in MousePoints : PvStartDrag(p)
    \/ \E p \in MousePoints : PvOnDrag(p)
    \/ PvEndDrag
    \/ \E k \in Keys : PvHandleKey(k)



(***************************************************************************)
(* C1.  In every reachable state of the viewer the scale is strictly       *)
(* positive and lies in [minScale, maxScale] = [0.1, 10].                  *)
(***************************************************************************)
C1_ScaleInRange ==
    /\ Gt(pv_scale, FromInt(0))
    /\ Le(minScale, pv_scale)
    /\ Le(pv_scale, maxScale)

\* The part of C1 the code does keep: every wheel zoom ends with the scale in
\* [0.1, 10], unless the scale was NaN before it.
C1_WheelClamps ==
    (pv_last.op = "wheel" /\ ~IsNaN(pv_scale)) => C1_ScaleInRange

(***************************************************************************)
(* C2.  A wheel zoom at screen point p leaves the document point under p   *)
(* unchanged: (p - translate) / scale is the same number before and after  *)
(* the call, on both axes.                                                 *)
(***************************************************************************)
\* The document-space coordinate under the screen offset o.
docCoord(o, t, s) == Div(Sub(o, t), s)

C2_AnchorPreserved ==
    [][ (pv_ops' # pv_ops /\ pv_last'.op = "wheel") =>
          LET ox == FromInt(pv_last'.p[1] - pv_container.left)
              oy == FromInt(pv_last'.p[2] - pv_container.top)
          IN  /\ NumEq(docCoord(ox, pv_translate'.x, pv_scale'),
                       docCoord(ox, pv_translate.x, pv_scale))
              /\ NumEq(docCoord(oy, pv_translate'.y, pv_scale'),
                       docCoord(oy, pv_translate.y, pv_scale)) ]_vars

\* The part of C2 the code does keep: the anchor is preserved by every wheel
\* zoom that starts from a finite, strictly positive scale and finite translate.
C2_AnchorPreservedFromValidScale ==
    [][ (pv_ops' # pv_ops /\ pv_last'.op = "wheel"
         /\ IsFinite(pv_scale) /\ Gt(pv_scale, FromInt(0))
         /\ IsFinite(pv_translate.x) /\ IsFinite(pv_translate.y)) =>
          LET ox == FromInt(pv_last'.p[1] - pv_container.left)
              oy == FromInt(pv_last'.p[2] - pv_container.top)
          IN  /\ NumEq(docCoord(ox, pv_translate'.x, pv_scale'),
                       docCoord(ox, pv_translate.x, pv_scale))
              /\ NumEq(docCoord(oy, pv_translate'.y, pv_scale'),
                       docCoord(oy, pv_translate.y, pv_scale)) ]_vars


(***************************************************************************)
(* The documents of the tiles and of the overlay compositor.               *)
(***************************************************************************)
SceneDocs ==
    [ plant  |-> [hasSvg |-> TRUE,
                  viewBox |-> <<FromInt(0), FromInt(0), FromInt(100), FromInt(50)>>,
                  els |-> << Shape("a", <<"valve">>, 0, <<0, 0, 10, 10>>),
                             Group("grp", <<>>, 0, <<1, 10, 5>>),
                             Title(2, "Pump 1"),
                             Group("", <<>>, 2, <<2, 0, 0>>),
                             Shape("target", <<"valve">>, 4, <<5, 5, 20, 10>>),
                             Shape("b", <<>>, 0, <<90, 40, 10, 10>>) >>],
      loop   |-> [hasSvg |-> TRUE,
                  viewBox |-> <<FromInt(10), FromInt(10), FromInt(40), FromInt(40)>>,
                  els |-> << Shape("p", <<>>, 0, <<10, 10, 5, 5>>),
                             Shape("q", <<>>, 0, <<45, 45, 5, 5>>) >>],
      bare   |-> [hasSvg |-> TRUE,
                  viewBox |-> <<>>,
                  els |-> << Shape("z", <<>>, 0, <<0, 0, 10, 10>>) >>],
      single |-> [hasSvg |-> TRUE,
                  viewBox |-> <<>>,
                  els |-> << Group("a", <<>>, 0, identityTf) >>],
      nosvg  |-> [hasSvg |-> FALSE, viewBox |-> <<>>, els |-> <<>>] ]

\* SVGGraphicsElement: the elements that have a getBBox method.
IsGraphics(el) == el.tag \in {"rect", "g"}

\* A box mapped through a transform attribute.
TransformBox(tf, b) ==
    <<tf[1] * b[1] + tf[2], tf[1] * b[2] + tf[3], tf[1] * b[3], tf[1] * b[4]>>

SetMin(S) == CHOOSE m \in S : \A n \in S : m <= n

SetMax(S) == CHOOSE m \in S : \A n \in S : m >= n

\* The smallest box enclosing a non-empty set of boxes.
UnionBoxes(B) ==
    LET x0 == SetMin({b[1] : b \in B})
        y0 == SetMin({b[2] : b \in B})
        x1 == SetMax({b[1] + b[3] : b \in B})
        y1 == SetMax({b[2] + b[4] : b \in B})
    IN  <<x0, y0, x1 - x0, y1 - y0>>

\* el.getBBox(): the bounding box in the element's own user space.  The
\* element's transform attribute and those of its ancestors are not applied;
\* a group encloses its graphics children, each mapped through its own
\* transform.  (Called only on graphics elements: on any other the call throws.)
RECURSIVE getBBox(_, _)
getBBox(els, i) ==
    IF els[i].tag = "rect" THEN els[i].box
    ELSE LET kids == {j \in DOMAIN els : els[j].parent = i /\ IsGraphics(els[j])}
         IN  IF kids = {} THEN <<0, 0, 0, 0>>
             ELSE UnionBoxes({TransformBox(els[j].tf, getBBox(els, j)) : j \in kids})


(***************************************************************************)
(* PidTiles.                                                               *)
(***************************************************************************)
DEBOUNCE_MS == 50

TileSrcs == {"plant", "loop", "bare", "nosvg"}

TileContainers ==
    { [w |-> 200,  h |-> 100,  left |-> 0, top |-> 0],
      [w |-> 1000, h |-> 2000, left |-> 0, top |-> 0],
      [w |-> 0,    h |-> 0,    left |-> 0, top |-> 0] }

\* How a fetch settles: a success response, a non-ok response, a rejection.
FetchOutcomes == {"ok", "http_error", "network_error"}

TileWheelDeltas == {-100, 100}

\* Position of the wheel events explored for the tiles.
TileWheelPoints == { <<60, 40>> }

\* An index build without the inner try/catch: it ends at the first element
\* whose getBBox() throws.
buildIndexUntilThrow(src) ==
    LET els == SceneDocs[src].els
        failing == {i \in DOMAIN els : ~IsGraphics(els[i])}
        upTo == IF failing = {} THEN Len(els) ELSE SetMin(failing) - 1
    IN  [k \in 1..upTo |-> [src |-> src, el |-> k, bbox |-> getBBox(els, k)]]

\* The index built by load(): every descendant of the svg in document order,
\* with its getBBox(); an element whose getBBox() throws is left out.
buildIndex(src) ==
    LET els == SceneDocs[src].els
        graphics == SelectSeq([i \in DOMAIN els |-> i], LAMBDA i : IsGraphics(els[i]))
    IN  [k \in DOMAIN graphics |->
           [src |-> src, el |-> graphics[k], bbox |-> getBBox(els, graphics[k])]]

\* The index of each source, computed once.
indexOf == [src \in TileSrcs |-> buildIndex(src)]

\* updateTiles: the visible rectangle in document space.
viewRect(scale, translate, container) ==
    [x |-> Div(Neg(translate.x), scale),
     y |-> Div(Neg(translate.y), scale),
     w |-> Div(FromInt(container.w), scale),
     h |-> Div(FromInt(container.h), scale)]

\* updateTiles: the test that skips an entry.
culled(bbox, view) ==
    LET right == Add(view.x, view.w)
        bottom == Add(view.y, view.h)
    IN  \/ Gt(FromInt(bbox[1]), right)
        \/ Gt(FromInt(bbox[2]), bottom)
        \/ Lt(FromInt(bbox[1] + bbox[3]), view.x)
        \/ Lt(FromInt(bbox[2] + bbox[4]), view.y)

\* updateTiles: the clones appended to the viewport, in index order.
tileOf(elements, view, highlight) ==
    LET kept == SelectSeq(elements, LAMBDA e : ~culled(e.bbox, view))
    IN  [k \in DOMAIN kept |->
           [src |-> kept[k].src, el |-> kept[k].el, hl |-> highlightClasses(highlight)]]

\* scheduleUpdate without its clearTimeout: every trigger stacks a timer.
scheduleUpdateNoCancel(timers, ref, scale, translate, highlight) ==
    [timers |-> timers \cup {[id |-> ref + 1, elapsed |-> 0, scale |-> scale,
                               translate |-> translate, highlight |-> highlight]},
     ref |-> ref + 1]

\* scheduleUpdate as a leading debounce: a pending timer is left as it is.
scheduleUpdateKeepPending(timers, ref, scale, translate, highlight) ==
    IF \E t \in timers : t.id = ref
    THEN [timers |-> timers, ref |-> ref]
    ELSE [timers |-> timers \cup {[id |-> ref + 1, elapsed |-> 0, scale |-> scale,
                                    translate |-> translate, highlight |-> highlight]},
          ref |-> ref + 1]

\* scheduleUpdate, called by the [scale, translate, highlight] effect of the
\* render with these values: cancel the timer debounceTimer.current names and
\* arm a new one whose callback closes over the render's values.
scheduleUpdate(timers, ref, scale, translate, highlight) ==
    LET kept == IF ref # 0 THEN {t \in timers : t.id # ref} ELSE timers
        id == ref + 1
    IN  [timers |-> kept \cup {[id |-> id, elapsed |-> 0, scale |-> scale,
                                translate |-> translate, highlight |-> highlight]},
         ref |-> id]

PtInitWith(src, highlight, container) ==
    /\ pt_src = src
    /\ pt_highlight = highlight
    /\ pt_inflight = {pt_src}
    /\ pt_elements = <<>>
    /\ pt_scale = FromInt(1)
    /\ pt_translate = identityTranslate
    /\ pt_dragging = FALSE
    /\ pt_dragStart = identityTranslate
    /\ pt_container = container
    /\ pt_mounted = TRUE
    /\ LET a == scheduleUpdate({}, 0, pt_scale, pt_translate, pt_highlight)
       IN  /\ pt_timers = a.timers
           /\ pt_debounceTimer = a.ref
    /\ pt_viewBox = <<>>
    /\ pt_tile = <<>>
    /\ pt_toasts = 0
    /\ pt_sinceEvent = 0
    /\ pt_recomputes = 0
    /\ pt_burst = 1
    /\ pt_ops = 0
    /\ pt_last = NoEvent

\* highlight defaults to null; PtSetHighlight reaches the other values.
PtInit == \E src \in TileSrcs, c \in TileContainers : PtInitWith(src, "null", c)

\* The tiles component as it stands while another component is explored.
PtParked == PtInitWith("plant", "null", [w |-> 200, h |-> 100, left |-> 0, top |-> 0])

PtStepEvent(ev) ==
    /\ UNCHANGED <<pvVars, ovVars>>
    /\ pt_ops < MaxOps
    /\ pt_ops' = pt_ops + 1
    /\ pt_last' = ev

\* A prop change or a DOM event: they reach a mounted component only.
PtStep(op, p, d) == pt_mounted /\ PtStepEvent(Event(op, p, d, ""))

\* A render with new scale / translate / highlight: the effect runs
\* scheduleUpdate.
PtTrigger(scale, translate, highlight) ==
    /\ pt_scale' = scale
    /\ pt_translate' = translate
    /\ pt_highlight' = highlight
    /\ LET a == scheduleUpdate(pt_timers, pt_debounceTimer, scale, translate, highlight)
       IN  /\ pt_timers' = a.timers
           /\ pt_debounceTimer' = a.ref
    /\ pt_sinceEvent' = 0
    /\ pt_recomputes' = 0
    /\ pt_burst' = IF pt_recomputes > 0 THEN 1 ELSE pt_burst + 1

PtNoTrigger ==
    UNCHANGED <<pt_scale, pt_translate, pt_highlight, pt_timers, pt_debounceTimer,
                pt_sinceEvent, pt_recomputes, pt_burst>>

\* The src prop changes: the [src] effect calls load().
PtSetSrc(s) ==
    /\ s # pt_src
    /\ PtStep("src", <<0, 0>>, 0)
    /\ pt_src' = s
    /\ pt_inflight' = pt_inflight \cup {s}
    /\ PtNoTrigger
    /\ UNCHANGED <<pt_elements, pt_dragging, pt_dragStart, pt_container, pt_mounted, pt_viewBox,
                   pt_tile, pt_toasts>>

PtSetHighlight(h) ==
    /\ h # pt_highlight
    /\ PtStep("highlight", <<0, 0>>, 0)
    /\ PtTrigger(pt_scale, pt_translate, h)
    /\ UNCHANGED <<pt_src, pt_inflight, pt_elements, pt_dragging, pt_dragStart,
                   pt_container, pt_mounted, pt_viewBox, pt_tile, pt_toasts>>

\* How a load ended: the fetch failed, hiddenRef.current was null (the
\* component had been unmounted), the body has no svg, the svg has no viewBox
\* (indexed, not fitted), or the diagram was indexed and fitted.
loadOp(mounted, src, outcome) ==
    IF outcome # "ok" THEN "loadfail"
    ELSE IF ~mounted THEN "loadgone"
    ELSE IF ~SceneDocs[src].hasSvg THEN "loadnosvg"
    ELSE IF SceneDocs[src].viewBox = <<>> THEN "load"
    ELSE "loadfit"

\* load() continues after its awaits.
PtLoadSettle(src, outcome) ==
    /\ src \in pt_inflight
    /\ PtStepEvent(Event(loadOp(pt_mounted, src, outcome), <<0, 0>>, 0, src))
    /\ pt_inflight' = pt_inflight \ {src}
    /\ LET doc == SceneDocs[src]
           fit == fitTransform(pt_container, doc.viewBox)
       IN  IF outcome # "ok"
           THEN /\ pt_toasts' = pt_toasts + 1
                /\ PtNoTrigger
                /\ UNCHANGED pt_elements
           ELSE IF ~pt_mounted \/ ~doc.hasSvg
           THEN /\ PtNoTrigger
                /\ UNCHANGED <<pt_elements, pt_toasts>>
           ELSE /\ pt_elements' = indexOf[src]
                /\ UNCHANGED pt_toasts
                /\ IF doc.viewBox = <<>>
                   THEN PtNoTrigger
                   ELSE PtTrigger(fit.scale, fit.translate, pt_highlight)
    /\ UNCHANGED <<pt_src, pt_dragging, pt_dragStart, pt_container, pt_mounted, pt_viewBox, pt_tile>>

PtHandleWheel(p, deltaY) ==
    /\ PtStep("wheel", p, deltaY)
    /\ LET z == wheelTransform(pt_scale, pt_translate, pt_container, p, deltaY)
       IN  PtTrigger(z.scale, z.translate, pt_highlight)
    /\ UNCHANGED <<pt_src, pt_inflight, pt_elements, pt_dragging, pt_dragStart,
                   pt_container, pt_mounted, pt_viewBox, pt_tile, pt_toasts>>

PtStartDrag(p) ==
    /\ PtStep("mousedown", p, 0)
    /\ pt_dragging' = TRUE
    /\ pt_dragStart' = dragOrigin(pt_translate, p)
    /\ PtNoTrigger
    /\ UNCHANGED <<pt_src, pt_inflight, pt_elements, pt_container, pt_mounted, pt_viewBox, pt_tile,
                   pt_toasts>>

PtOnDrag(p) ==
    /\ PtStep("mousemove", p, 0)
    /\ IF pt_dragging
       THEN PtTrigger(pt_scale, dragTranslate(pt_dragStart, p), pt_highlight)
       ELSE PtNoTrigger
    /\ UNCHANGED <<pt_src, pt_inflight, pt_elements, pt_dragging, pt_dragStart,
                   pt_container, pt_mounted, pt_viewBox, pt_tile, pt_toasts>>

\* mouseup and mouseleave
PtEndDrag ==
    /\ PtStep("mouseup", <<0, 0>>, 0)
    /\ pt_dragging' = FALSE
    /\ PtNoTrigger
    /\ UNCHANGED <<pt_src, pt_inflight, pt_elements, pt_dragStart, pt_container, pt_mounted,
                   pt_viewBox, pt_tile, pt_toasts>>

Min2(a, b) == IF a < b THEN a ELSE b

\* TickMs of time pass.
PtTick ==
    /\ UNCHANGED <<pvVars, ovVars>>
    /\ pt_sinceEvent < DEBOUNCE_MS \/ \E t \in pt_timers : t.elapsed < DEBOUNCE_MS
    /\ pt_timers' = {[t EXCEPT !.elapsed = Min2(t.elapsed + TickMs, DEBOUNCE_MS)] : t \in pt_timers}
    /\ pt_sinceEvent' = Min2(pt_sinceEvent + TickMs, DEBOUNCE_MS)
    /\ UNCHANGED <<pt_src, pt_highlight, pt_inflight, pt_elements, pt_scale, pt_translate,
                   pt_dragging, pt_dragStart, pt_container, pt_mounted, pt_debounceTimer, pt_viewBox,
                   pt_tile, pt_toasts, pt_recomputes, pt_burst, pt_ops, pt_last>>

\* A timer callback that does not look at its refs.
PtUpdateTilesUnguarded(t) ==
    /\ UNCHANGED <<pvVars, ovVars>>
    /\ t \in pt_timers
    /\ t.elapsed >= DEBOUNCE_MS
    /\ pt_timers' = pt_timers \ {t}
    /\ LET view == viewRect(t.scale, t.translate, pt_container)
       IN  /\ pt_viewBox' = <<view.x, view.y, view.w, view.h>>
           /\ pt_tile' = tileOf(pt_elements, view, t.highlight)
    /\ pt_recomputes' = pt_recomputes + 1
    /\ pt_last' = Event(IF pt_mounted THEN "tiles" ELSE "tiles-skip", <<0, 0>>, 0, "")
    /\ UNCHANGED <<pt_src, pt_highlight, pt_inflight, pt_elements, pt_scale, pt_translate,
                   pt_dragging, pt_dragStart, pt_container, pt_mounted, pt_debounceTimer,
                   pt_toasts, pt_sinceEvent, pt_burst, pt_ops>>

\* A timer that is due runs its callback: updateTiles of the render that armed
\* it, which returns at once when containerRef or viewportRef is null.
PtUpdateTiles(t) ==
    /\ UNCHANGED <<pvVars, ovVars>>
    /\ t \in pt_timers
    /\ t.elapsed >= DEBOUNCE_MS
    /\ pt_timers' = pt_timers \ {t}
    /\ IF pt_mounted
       THEN LET view == viewRect(t.scale, t.translate, pt_container)
            IN  /\ pt_viewBox' = <<view.x, view.y, view.w, view.h>>
                /\ pt_tile' = tileOf(pt_elements, view, t.highlight)
       ELSE UNCHANGED <<pt_viewBox, pt_tile>>
    /\ pt_recomputes' = pt_recomputes + 1
    /\ pt_last' = Event(IF pt_mounted THEN "tiles" ELSE "tiles-skip", <<0, 0>>, 0, "")
    /\ UNCHANGED <<pt_src, pt_highlight, pt_inflight, pt_elements, pt_scale, pt_translate,
                   pt_dragging, pt_dragStart, pt_container, pt_mounted, pt_debounceTimer,
                   pt_toasts, pt_sinceEvent, pt_burst, pt_ops>>

\* The parent stops rendering the component: React detaches its refs.  No
\* effect has a cleanup function, so the pending timer and the fetches in
\* flight stay as they are.
PtUnmount ==
    /\ PtStep("unmount", <<0, 0>>, 0)
    /\ pt_mounted' = FALSE
    /\ PtNoTrigger
    /\ UNCHANGED <<pt_src, pt_inflight, pt_elements, pt_dragging, pt_dragStart,
                   pt_container, pt_viewBox, pt_tile, pt_toasts>>

PtNext ==
    \/ \E s \in TileSrcs : PtSetSrc(s)
    \/ \E h \in Highlights : PtSetHighlight(h)
    \/ \E src \in pt_inflight, o \in FetchOutcomes : PtLoadSettle(src, o)
    \/ \E p \in TileWheelPoints, dy \in TileWheelDeltas : PtHandleWheel(p, dy)
    \/ \E p \in MousePoints : PtStartDrag(p)
    \/ \E p \in MousePoints : PtOnDrag(p)
    \/ PtEndDrag
    \/ PtTick
    \/ \E t \in pt_timers : PtUpdateTiles(t)
    \/ PtUnmount


(***************************************************************************)
(* applyPidOverlay and the overlay effect of PidTab.                       *)
(*                                                                         *)
(* A selector is "#name" or ".name", or a string that is not a selector    *)
(* (such as "["), for which querySelector and querySelectorAll throw a     *)
(* SyntaxError.  None of the selectors below matches an element of a badge *)
(* layer (they carry no id and only the class pid-badge), so queries are   *)
(* answered over the diagram's own elements.                               *)
(***************************************************************************)
IdSel(name) == [kind |-> "id", name |-> name]

ClassSel(name) == [kind |-> "class", name |-> name]

InvalidSel == [kind |-> "invalid", name |-> "["]

Badge(selector, type) == [selector |-> selector, type |-> type]

HighlightLists ==
    { <<>>,
      <<IdSel("a")>>,
      <<IdSel("a"), IdSel("a")>>,
      <<ClassSel("valve"), IdSel("missing")>>,
      <<IdSel("target"), ClassSel("valve"), IdSel("target")>> }

BadgeLists ==
    { <<>>,
      <<Badge(IdSel("missing"), "asset")>>,
      <<Badge(IdSel("target"), "asset")>>,
      <<Badge(ClassSel("valve"), "source"), Badge(IdSel("missing"), "asset"),
        Badge(IdSel("b"), "asset")>>,
      <<Badge(IdSel("a"), "asset"), Badge(IdSel("a"), "source")>> }

PathLists ==
    { <<>>,
      << [id |-> "source", selectors |-> <<IdSel("b")>>],
         [id |-> "sim1", selectors |-> <<ClassSel("valve"), IdSel("b")>>] >> }

WarningLists ==
    { <<>>,
      <<"w1", "w1", "w2">>,
      <<"missing tag", "missing tag", "unmapped">> }

Overlays ==
    [highlight : HighlightLists, badges : BadgeLists, paths : PathLists,
     warnings : WarningLists]

\* Overlays with a selector that cannot be evaluated, in the highlight list
\* and in the badge list.
ThrowingOverlays ==
    { [highlight |-> <<IdSel("a"), InvalidSel, IdSel("b")>>,
       badges |-> <<Badge(IdSel("target"), "asset")>>,
       paths |-> <<>>, warnings |-> <<>>],
      [highlight |-> <<IdSel("a")>>,
       badges |-> <<Badge(IdSel("a"), "asset"), Badge(InvalidSel, "asset"),
                    Badge(IdSel("b"), "asset")>>,
       paths |-> <<>>, warnings |-> <<>>] }

OverlayScenes == {"plant", "single"}

\* The documents PidViewer may be served: a diagram, or a body without an svg.
FetchedScenes == OverlayScenes \cup {"nosvg"}

OverlayHosts == {"direct", "tab"}

\* The overlay prop of PidViewer, which reads highlight and paths only.
ViewerOverlays ==
    [highlight : HighlightLists, badges : {<<>>}, paths : PathLists, warnings : {<<>>}]

\* A value that may be undefined.
Undefined == [defined |-> FALSE, value |-> <<>>]

Defined(v) == [defined |-> TRUE, value |-> v]

NoOverlay == [highlight |-> <<>>, badges |-> <<>>, paths |-> <<>>, warnings |-> <<>>]

\* A token list that appends without looking for the token.
classListPush(tokens, t) == Append(tokens, t)

\* DOMTokenList.add: the token is added unless it is present.
classListAdd(tokens, t) ==
    IF \E k \in DOMAIN tokens : tokens[k] = t THEN tokens ELSE Append(tokens, t)

\* DOMTokenList.remove.
classListRemove(tokens, t) == SelectSeq(tokens, LAMBDA u : u # t)

\* Element.matches for the two selector forms.
matches(el, tokens, sel) ==
    IF sel.kind = "id" THEN el.id # "" /\ el.id = sel.name
    ELSE \E k \in DOMAIN tokens : tokens[k] = sel.name

\* svg.querySelectorAll(sel): every matching descendant.
querySelectorAll(els, classes, sel) ==
    {i \in DOMAIN els : matches(els[i], classes[i], sel)}

\* A query that answers with the last match instead of the first.
querySelectorLast(els, classes, sel) ==
    LET hits == querySelectorAll(els, classes, sel)
    IN  IF hits = {} THEN 0 ELSE SetMax(hits)

\* svg.querySelector(sel): the first match in document order, 0 for null.
querySelector(els, classes, sel) ==
    LET hits == querySelectorAll(els, classes, sel)
    IN  IF hits = {} THEN 0 ELSE SetMin(hits)

\* forEach((el) => el.classList.add(t)) over a query result.
addToAll(classes, hits, t) ==
    [i \in DOMAIN classes |->
       IF i \in hits THEN classListAdd(classes[i], t) ELSE classes[i]]

\* overlay.highlight.forEach(...): lines 25-29.
RECURSIVE highlightAll(_, _, _)
highlightAll(els, classes, sels) ==
    IF sels = <<>> THEN classes
    ELSE highlightAll(els,
                      addToAll(classes, querySelectorAll(els, classes, Head(sels)),
                               "hl-primary"),
                      Tail(sels))

\* The foreignObject built for one badge: lines 39-55.  target records
\* which element the badge was made for.
badgeFor(els, target, badge) ==
    LET bbox == IF IsGraphics(els[target]) THEN getBBox(els, target)
                ELSE <<0, 0, 0, 0>>
    IN  [target |-> target, x |-> bbox[1], y |-> bbox[2], width |-> bbox[3],
         height |-> bbox[4], className |-> <<"pid-badge">>, text |-> badge.type]

\* overlay.badges.forEach(...): the children of the new badge layer.
RECURSIVE badgesOf(_, _, _)
badgesOf(els, classes, badges) ==
    IF badges = <<>> THEN <<>>
    ELSE LET target == querySelector(els, classes, Head(badges).selector)
             rest == badgesOf(els, classes, Tail(badges))
         IN  IF target = 0 THEN rest
             ELSE <<badgeFor(els, target, Head(badges))>> \o rest

\* The position of the first selector a query throws on, 0 when there is none.
firstThrowing(sels) ==
    LET bad == {k \in DOMAIN sels : sels[k].kind = "invalid"}
    IN  IF bad = {} THEN 0 ELSE SetMin(bad)

\* The entries a forEach gets through before the callback throws at position
\* stop (all of them when stop is 0).
ranBefore(seq, stop) == IF stop = 0 THEN seq ELSE SubSeq(seq, 1, stop - 1)

\* applyPidOverlay(svg, overlay): the diagram afterwards, the value returned
\* and whether the call ended with an exception.  Nothing catches what a query
\* throws: the highlights made so far stay, and so does the badge layer once it
\* has been appended, with the badges made so far.
applyPidOverlay(els, classes, layers, overlay) ==
    LET hlStop == firstThrowing(overlay.highlight)
        bStop == firstThrowing([k \in DOMAIN overlay.badges |-> overlay.badges[k].selector])
        marked == highlightAll(els, classes, ranBefore(overlay.highlight, hlStop))
    IN  IF hlStop > 0
        THEN [classes |-> marked, layers |-> layers, result |-> Undefined, threw |-> TRUE]
        ELSE [classes |-> marked,
              layers |-> Append(layers,
                                badgesOf(els, marked, ranBefore(overlay.badges, bStop))),
              result |-> Undefined, threw |-> bStop > 0]

\* p.selectors of several paths, flattened.
RECURSIVE flatSelectors(_)
flatSelectors(paths) ==
    IF paths = <<>> THEN <<>> ELSE Head(paths).selectors \o flatSelectors(Tail(paths))

\* The highlight list the PidTab effect builds.
tabHighlight(data, showSourcePath, showSimFails) ==
    LET sourcePath == IF data.paths = <<>> THEN <<>> ELSE data.paths[1].selectors
        simFailSelectors == IF data.paths = <<>> THEN <<>>
                            ELSE flatSelectors(Tail(data.paths))
    IN  data.highlight
        \o (IF showSourcePath THEN sourcePath ELSE <<>>)
        \o (IF showSimFails THEN simFailSelectors ELSE <<>>)

\* The overlay the PidTab effect passes to applyPidOverlay.
tabOverlay(data, showSourcePath, showSimFails) ==
    [highlight |-> tabHighlight(data, showSourcePath, showSimFails),
     badges |-> data.badges, paths |-> <<>>, warnings |-> data.warnings]

OvEvent(op, overlay) == [op |-> op, overlay |-> overlay]

OvInitWith(host, scene, overlay) ==
    /\ ov_host = host
    /\ ov_scene = scene
    /\ ov_mounted = (host = "direct")
    /\ ov_inflight = (host # "direct")
    /\ ov_overlay = overlay
    /\ ov_fetchOverlay = overlay
    /\ ov_highlighted = <<>>
    /\ ov_classes = [i \in DOMAIN SceneDocs[scene].els |-> SceneDocs[scene].els[i].cls]
    /\ ov_layers = <<>>
    /\ ov_result = Undefined
    /\ ov_data = [defined |-> FALSE, value |-> NoOverlay]
    /\ ov_showSimFails = FALSE
    /\ ov_showSourcePath = FALSE
    /\ ov_warnings = Defined(<<>>)
    /\ ov_ops = 0
    /\ ov_last = OvEvent("mount", NoOverlay)

NoOverlayProp == [defined |-> FALSE, value |-> NoOverlay]

OverlayProps == {NoOverlayProp} \cup {Defined(o) : o \in ViewerOverlays}

OvInit ==
    \/ \E scene \in OverlayScenes : OvInitWith("direct", scene, NoOverlayProp)
    \/ \E scene \in FetchedScenes : OvInitWith("tab", scene, NoOverlayProp)
    \/ \E scene \in FetchedScenes, o \in OverlayProps : OvInitWith("viewer", scene, o)

\* The compositor as it stands while another component is explored.
OvParked == OvInitWith("direct", "plant", NoOverlayProp)

OvStep ==
    /\ ov_ops < MaxOverlayOps
    /\ ov_ops' = ov_ops + 1
    /\ UNCHANGED <<ov_host, ov_scene, pvVars, ptVars>>

\* A caller applies an overlay to the mounted diagram.
OvApply(overlay) ==
    /\ ov_host = "direct"
    /\ OvStep
    /\ LET r == applyPidOverlay(SceneDocs[ov_scene].els, ov_classes, ov_layers, overlay)
       IN  /\ ov_classes' = r.classes
           /\ ov_layers' = r.layers
           /\ ov_result' = r.result
           /\ ov_last' = OvEvent(IF r.threw THEN "apply-throw" ELSE "apply", overlay)
    /\ UNCHANGED <<ov_mounted, ov_inflight, ov_data, ov_showSimFails, ov_showSourcePath,
                   ov_warnings, ov_overlay, ov_fetchOverlay, ov_highlighted>>

\* The effect without its `if (!svg) return`: it clears and applies whether or
\* not the container holds a root.
OvTabEffectUnguarded(data, showSimFails, showSourcePath) ==
    LET els == SceneDocs[ov_scene].els
        cleared == [i \in DOMAIN ov_classes |->
                       classListRemove(ov_classes[i], "hl-primary")]
        overlay == tabOverlay(data.value, showSourcePath, showSimFails)
        r == applyPidOverlay(els, cleared, <<>>, overlay)
    IN  /\ ov_classes' = r.classes
        /\ ov_layers' = r.layers
        /\ ov_result' = r.result
        /\ ov_warnings' = r.result
        /\ ov_last' = OvEvent("effect", overlay)

\* The [data, showSimFails, showSourcePath] effect of PidTab, run with the
\* values of the render that follows the state change.
OvTabEffect(data, showSimFails, showSourcePath) ==
    IF ~data.defined \/ ~ov_mounted
    THEN /\ ov_last' = OvEvent("effect-skip", NoOverlay)
         /\ UNCHANGED <<ov_classes, ov_layers, ov_result, ov_warnings>>
    ELSE LET els == SceneDocs[ov_scene].els
             cleared == [i \in DOMAIN ov_classes |->
                            classListRemove(ov_classes[i], "hl-primary")]
             overlay == tabOverlay(data.value, showSourcePath, showSimFails)
             r == applyPidOverlay(els, cleared, <<>>, overlay)
         IN  /\ ov_classes' = r.classes
             /\ ov_layers' = r.layers
             /\ ov_result' = r.result
             /\ ov_warnings' = r.result
             /\ ov_last' = OvEvent("effect", overlay)

\* The overlay query resolves with new data.
OvTabData(overlay) ==
    /\ ov_host = "tab"
    /\ ~(ov_data.defined /\ ov_data.value = overlay)
    /\ OvStep
    /\ ov_data' = [defined |-> TRUE, value |-> overlay]
    /\ OvTabEffect(ov_data', ov_showSimFails, ov_showSourcePath)
    /\ UNCHANGED <<ov_mounted, ov_inflight, ov_showSimFails, ov_showSourcePath,
                   ov_overlay, ov_fetchOverlay, ov_highlighted>>

\* PidViewer, rendered once data is there, has fetched the document and
\* mounted it; the container holds an svg root if the document has one.
OvTabSvgMounted ==
    /\ ov_host = "tab"
    /\ ov_data.defined
    /\ ov_inflight
    /\ OvStep
    /\ ov_inflight' = FALSE
    /\ ov_mounted' = SceneDocs[ov_scene].hasSvg
    /\ ov_last' = OvEvent("svg", NoOverlay)
    /\ UNCHANGED <<ov_classes, ov_layers, ov_result, ov_data, ov_showSimFails,
                   ov_showSourcePath, ov_warnings, ov_overlay, ov_fetchOverlay,
                   ov_highlighted>>

OvTabToggleSimFails ==
    /\ ov_host = "tab"
    /\ ov_data.defined
    /\ OvStep
    /\ ov_showSimFails' = ~ov_showSimFails
    /\ OvTabEffect(ov_data, ov_showSimFails', ov_showSourcePath)
    /\ UNCHANGED <<ov_mounted, ov_inflight, ov_data, ov_showSourcePath, ov_overlay,
                   ov_fetchOverlay, ov_highlighted>>

OvTabToggleSourcePath ==
    /\ ov_host = "tab"
    /\ ov_data.defined
    /\ OvStep
    /\ ov_showSourcePath' = ~ov_showSourcePath
    /\ OvTabEffect(ov_data, ov_showSimFails, ov_showSourcePath')
    /\ UNCHANGED <<ov_mounted, ov_inflight, ov_data, ov_showSimFails, ov_overlay,
                   ov_fetchOverlay, ov_highlighted>>

\* forEach((el) => el.classList.remove('hl-primary', 'hl-warning')) over the
\* highlighted ref.
unmarkAll(classes, highlighted) ==
    [i \in DOMAIN classes |->
       IF \E k \in DOMAIN highlighted : highlighted[k] = i
       THEN classListRemove(classListRemove(classes[i], "hl-primary"), "hl-warning")
       ELSE classes[i]]

\* The matches of a selector in document order, as querySelectorAll lists them.
RECURSIVE inOrder(_)
inOrder(hits) ==
    IF hits = {} THEN <<>> ELSE <<SetMin(hits)>> \o inOrder(hits \ {SetMin(hits)})

\* selectors.forEach((sel) => querySelectorAll(sel).forEach((el) => {
\*   el.classList.add(marker); highlighted.current.push(el) }))
RECURSIVE markAll(_, _, _, _)
markAll(els, dom, sels, marker) ==
    IF sels = <<>> THEN dom
    ELSE LET hits == querySelectorAll(els, dom.classes, Head(sels))
         IN  markAll(els,
                     [classes |-> addToAll(dom.classes, hits, marker),
                      highlighted |-> dom.highlighted \o inOrder(hits)],
                     Tail(sels), marker)

\* PidViewer.applyOverlay with a root: the classes and the highlighted ref
\* afterwards.
viewerApplyOverlay(els, classes, highlighted, overlay) ==
    LET cleared == [classes |-> unmarkAll(classes, highlighted), highlighted |-> <<>>]
    IN  IF ~overlay.defined THEN cleared
        ELSE markAll(els, markAll(els, cleared, overlay.value.highlight, "hl-warning"),
                     flatSelectors(overlay.value.paths), "hl-primary")

\* applyOverlay() as called with the overlay of some render.
OvViewerApplyOverlay(op, mounted, overlay) ==
    IF ~mounted
    THEN /\ ov_last' = OvEvent("viewer-skip", overlay.value)
         /\ UNCHANGED <<ov_classes, ov_highlighted>>
    ELSE LET r == viewerApplyOverlay(SceneDocs[ov_scene].els, ov_classes,
                                     ov_highlighted, overlay)
         IN  /\ ov_classes' = r.classes
             /\ ov_highlighted' = r.highlighted
             /\ ov_last' = OvEvent(op, overlay.value)

\* The overlay prop changes: the [overlay] effect calls applyOverlay.
OvViewerSetOverlay(overlay) ==
    /\ ov_host = "viewer"
    /\ overlay # ov_overlay
    /\ OvStep
    /\ ov_overlay' = overlay
    /\ OvViewerApplyOverlay("viewer-apply", ov_mounted, overlay)
    /\ UNCHANGED <<ov_mounted, ov_inflight, ov_layers, ov_result, ov_data,
                   ov_showSimFails, ov_showSourcePath, ov_warnings, ov_fetchOverlay>>

\* The diagram fetch resolves: the .then handler of the render that issued it
\* mounts the body and calls applyOverlay.
OvViewerLoaded ==
    /\ ov_host = "viewer"
    /\ ov_inflight
    /\ OvStep
    /\ ov_inflight' = FALSE
    /\ ov_mounted' = SceneDocs[ov_scene].hasSvg
    /\ OvViewerApplyOverlay("viewer-load", SceneDocs[ov_scene].hasSvg, ov_fetchOverlay)
    /\ UNCHANGED <<ov_layers, ov_result, ov_data, ov_showSimFails, ov_showSourcePath,
                   ov_warnings, ov_overlay, ov_fetchOverlay>>

OvNext ==
    \/ \E overlay \in Overlays \cup ThrowingOverlays : OvApply(overlay)
    \/ \E overlay \in Overlays : OvTabData(overlay)
    \/ OvTabSvgMounted
    \/ OvTabToggleSimFails
    \/ OvTabToggleSourcePath
    \/ \E overlay \in OverlayProps : OvViewerSetOverlay(overlay)
    \/ OvViewerLoaded


(***************************************************************************)
(* Specifications: one component runs, the others stay as mounted.         *)
(***************************************************************************)
InitViewer == PvInit /\ PtParked /\ OvParked

SpecViewer == InitViewer /\ [][PvNext]_vars

InitTiles == PtInit /\ PvParked /\ OvParked

SpecTiles == InitTiles /\ [][PtNext]_vars

\* A step of PtUpdateTiles as it shows on the timer table: a timer that is due
\* leaves it.  (No other step of PtNext removes a due timer and adds none.)
PtTimerFires ==
    \E t \in pt_timers : t.elapsed >= DEBOUNCE_MS /\ pt_timers' = pt_timers \ {t}

\* The tiles mounted with the diagram "plant".
PtInitLive == \E c \in TileContainers : PtInitWith("plant", "null", c)

InitTilesLive == PtInitLive /\ PvParked /\ OvParked

\* The browser's clock advances and a timer that is due gets its callback run.
SpecTilesLive ==
    InitTilesLive /\ [][PtNext]_vars /\ WF_vars(PtTick) /\ WF_pt_timers(PtTimerFires)

InitOverlay == OvInit /\ PvParked /\ PtParked

SpecOverlay == InitOverlay /\ [][OvNext]_vars


(***************************************************************************)
(* C3.  fitToScreen sets scale = min(containerW / w, containerH / h) and a *)
(* translate that centres the frame: the visible rectangle read back from  *)
(* the viewport contains the whole frame and coincides with it on the      *)
(* limiting axis; frame 0 0 100 50 in a 200x100 container gives scale 2    *)
(* and translate (0, 0).                                                   *)
(***************************************************************************)
\* The state right after a load whose fitToScreen set the viewport.
C3_Fitted == pt_last.op = "loadfit"

C3_FitProperty ==
    LET vb == SceneDocs[pt_last.src].viewBox
        x == vb[1]
        y == vb[2]
        w == vb[3]
        h == vb[4]
        cw == FromInt(pt_container.w)
        ch == FromInt(pt_container.h)
        view == viewRect(pt_scale, pt_translate, pt_container)
    IN  \* scale = min(cw / w, ch / h): the frame fits and touches on one axis
        /\ Le(Mul(pt_scale, w), cw)
        /\ Le(Mul(pt_scale, h), ch)
        /\ NumEq(Mul(pt_scale, w), cw) \/ NumEq(Mul(pt_scale, h), ch)
        \* the visible rectangle contains the frame
        /\ Le(view.x, x)
        /\ Le(view.y, y)
        /\ Le(Add(x, w), Add(view.x, view.w))
        /\ Le(Add(y, h), Add(view.y, view.h))
        \* and coincides with it on the limiting axis
        /\ \/ NumEq(view.x, x) /\ NumEq(view.w, w)
           \/ NumEq(view.y, y) /\ NumEq(view.h, h)
        \* the frame is centred
        /\ NumEq(Sub(x, view.x), Sub(Add(view.x, view.w), Add(x, w)))
        /\ NumEq(Sub(y, view.y), Sub(Add(view.y, view.h), Add(y, h)))
        \* the scenario of the specification
        /\ (vb = <<FromInt(0), FromInt(0), FromInt(100), FromInt(50)>>
            /\ pt_container.w = 200 /\ pt_container.h = 100)
           => (pt_scale = FromInt(2) /\ pt_translate = identityTranslate)

C5_IntervalsMeet(a0, a1, b0, b1) == Le(MathMax(a0, b0), MathMin(a1, b1))

C5_Overlaps(bbox, ox, oy, w, h) ==
    /\ C5_IntervalsMeet(FromInt(bbox[1]), FromInt(bbox[1] + bbox[3]), ox, Add(ox, w))
    /\ C5_IntervalsMeet(FromInt(bbox[2]), FromInt(bbox[2] + bbox[4]), oy, Add(oy, h))

C5_ExpectedTile ==
    LET ox == Div(Neg(pt_translate.x), pt_scale)
        oy == Div(Neg(pt_translate.y), pt_scale)
        w == Div(FromInt(pt_container.w), pt_scale)
        h == Div(FromInt(pt_container.h), pt_scale)
        kept == SelectSeq(pt_elements, LAMBDA e : C5_Overlaps(e.bbox, ox, oy, w, h))
    IN  [k \in DOMAIN kept |-> <<kept[k].src, kept[k].el>>]

C5_RenderedTile == [k \in DOMAIN pt_tile |-> <<pt_tile[k].src, pt_tile[k].el>>]

C5_TileIsExactlyOverlap ==
    pt_last.op = "tiles" => C5_RenderedTile = C5_ExpectedTile

\* The part of C5 the code does keep: the tile is exact whenever the scale the
\* tile was computed with is finite and strictly positive.
C5_TileIsExactFromValidScale ==
    (pt_last.op = "tiles" /\ IsFinite(pt_scale) /\ Gt(pt_scale, FromInt(0))
     /\ IsFinite(pt_translate.x) /\ IsFinite(pt_translate.y))
    => C5_RenderedTile = C5_ExpectedTile

\* A tile that keeps some indexed elements and drops others.
C5_SomeCulledSomeKept ==
    /\ pt_last.op = "tiles"
    /\ Gt(pt_scale, FromInt(0))
    /\ Len(pt_tile) > 0
    /\ Len(pt_tile) < Len(pt_elements)

(***************************************************************************)
(* C6.  A burst of K >= 1 viewport-change events yields exactly one tile   *)
(* recomputation, which runs only after a full debounce window (50 ms) has *)
(* elapsed since the last event; at most one timer is outstanding at any   *)
(* time.                                                                   *)
(***************************************************************************)
C6_Debounce ==
    /\ Cardinality(pt_timers) <= 1
    /\ pt_timers # {} => pt_recomputes = 0
    /\ pt_timers = {} => pt_recomputes = 1
    /\ pt_last.op = "tiles" => (pt_recomputes = 1 /\ pt_sinceEvent >= DEBOUNCE_MS)

\* A burst of at least three triggers, the last two less than a window apart,
\* answered by one recomputation.
C6_Witness ==
    /\ pt_last.op = "tiles"
    /\ pt_burst >= 3
    /\ pt_recomputes = 1


(***************************************************************************)
(* Overlay claims.                                                         *)
(***************************************************************************)
\* A step that called applyPidOverlay directly.
AppliedStep == ov_ops' # ov_ops /\ ov_last'.op = "apply"

\* The badge layer the last call created.
LastLayer == ov_layers[Len(ov_layers)]

\* A sequence with every repetition of an earlier entry removed.
RECURSIVE Dedup(_)
Dedup(seq) ==
    IF seq = <<>> THEN <<>>
    ELSE LET front == Dedup(SubSeq(seq, 1, Len(seq) - 1))
             last == seq[Len(seq)]
         IN  IF \E k \in DOMAIN front : front[k] = last THEN front
             ELSE Append(front, last)

\* How many times a token occurs in a class list.
Occurrences(tokens, t) == Cardinality({k \in DOMAIN tokens : tokens[k] = t})

\* The elements a selector addresses.
Addressed(els, classes, sel) ==
    {i \in DOMAIN els :
       \/ sel.kind = "id" /\ els[i].id = sel.name
       \/ sel.kind = "class" /\ Occurrences(classes[i], sel.name) > 0}

(***************************************************************************)
(* C4.  applyOverlay(root, O) called twice consecutively with the same O   *)
(* yields the same annotation state as a single call: the same highlight   *)
(* markers and exactly one badge layer with the same badges.               *)
(***************************************************************************)
C4_RepeatedCall ==
    /\ AppliedStep
    /\ ov_last.op = "apply"
    /\ ov_last'.overlay = ov_last.overlay

C4_Idempotent ==
    [][ C4_RepeatedCall =>
          /\ ov_classes' = ov_classes
          /\ ov_layers' = ov_layers
          /\ Len(ov_layers') = 1 ]_vars

\* The part of C4 the code does keep: the highlight markers are the same after
\* the second call.
C4_MarkersIdempotent == [][ C4_RepeatedCall => ov_classes' = ov_classes ]_vars

(***************************************************************************)
(* C7.  An overlay whose highlight list repeats a selector marks each      *)
(* matching element exactly once and gives the same annotation state as    *)
(* the overlay with the duplicates removed; highlight ["#a", "#a"] on a    *)
(* scene containing only #a leaves exactly one marker on #a.               *)
(***************************************************************************)
C7_DuplicateHighlightMarksOnce ==
    [][ AppliedStep =>
          LET els == SceneDocs[ov_scene].els
              o == ov_last'.overlay
              d == applyPidOverlay(els, ov_classes, ov_layers,
                                   [o EXCEPT !.highlight = Dedup(o.highlight)])
          IN  /\ ov_classes' = d.classes
              /\ ov_layers' = d.layers
              /\ \A k \in DOMAIN o.highlight :
                   \A i \in Addressed(els, ov_classes, o.highlight[k]) :
                     Occurrences(ov_classes'[i], "hl-primary") = 1 ]_vars

\* The scenario: ["#a", "#a"] applied to the scene that holds only #a.
C7_Witness ==
    /\ ov_last.op = "apply"
    /\ ov_scene = "single"
    /\ ov_last.overlay.highlight = <<IdSel("a"), IdSel("a")>>
    /\ ov_classes[1] = <<"hl-primary">>

(***************************************************************************)
(* C8.  applyOverlay returns the overlay's warnings with duplicates        *)
(* removed and first-seen order preserved, whatever the diagram contains.  *)
(***************************************************************************)
C8_ReturnsDedupedWarnings ==
    ov_last.op \in {"apply", "effect"} =>
        ov_result = Defined(Dedup(ov_last.overlay.warnings))

(***************************************************************************)
(* C9.  The bounding box resolved for an element is its local box mapped   *)
(* through the element's own transform and then through each ancestor      *)
(* transform outward: {5, 5, 20, 10} inside scale(2) inside                *)
(* translate(10, 5) resolves to {20, 15, 40, 20}.                          *)
(***************************************************************************)
RECURSIVE C9_Outward(_, _, _)
C9_Outward(els, i, box) ==
    LET mapped == TransformBox(els[i].tf, box)
    IN  IF els[i].parent = 0 THEN mapped ELSE C9_Outward(els, els[i].parent, mapped)

C9_RootSpaceBox(els, i) == C9_Outward(els, i, getBBox(els, i))

C9_BadgeBoxInRootSpace ==
    (ov_last.op \in {"apply", "effect"}) =>
        \A k \in DOMAIN LastLayer :
            LET b == LastLayer[k]
            IN  <<b.x, b.y, b.width, b.height>>
                  = C9_RootSpaceBox(SceneDocs[ov_scene].els, b.target)

\* The part of C9 the code does keep: the box is right for an element with no
\* transform on itself or on any ancestor.
C9_BadgeBoxOfUntransformed ==
    (ov_last.op \in {"apply", "effect"}) =>
        \A k \in DOMAIN LastLayer :
            LET b == LastLayer[k]
                el == SceneDocs[ov_scene].els[b.target]
            IN  (el.parent = 0 /\ el.tf = identityTf) =>
                  <<b.x, b.y, b.width, b.height>>
                    = C9_RootSpaceBox(SceneDocs[ov_scene].els, b.target)

(***************************************************************************)
(* C10.  applyOverlay creates one fresh badge layer as the last child of   *)
(* the root and, for each badge entry in order, places exactly one badge   *)
(* on the first element matching its selector; an entry that matches       *)
(* nothing creates no badge and does not stop the remaining entries.       *)
(***************************************************************************)
C10_ExpectedBadges(els, classes, badges) ==
    LET kept == SelectSeq(badges, LAMBDA b : Addressed(els, classes, b.selector) # {})
    IN  [k \in DOMAIN kept |->
           LET hits == Addressed(els, classes, kept[k].selector)
           IN  [target |-> CHOOSE i \in hits : \A j \in hits : i <= j,
                text |-> kept[k].type]]

C10_Placed(layer) == [k \in DOMAIN layer |-> [target |-> layer[k].target, text |-> layer[k].text]]

C10_FreshLayerOneBadgePerMatch ==
    [][ AppliedStep =>
          /\ Len(ov_layers') = Len(ov_layers) + 1
          /\ SubSeq(ov_layers', 1, Len(ov_layers)) = ov_layers
          /\ C10_Placed(ov_layers'[Len(ov_layers')])
               = C10_ExpectedBadges(SceneDocs[ov_scene].els, ov_classes',
                                    ov_last'.overlay.badges) ]_vars

\* A second call whose entries are a selector with two matches, a selector
\* with none, and a selector with one: badges on the first valve and on #b.
C10_Witness ==
    /\ ov_last.op = "apply"
    /\ ov_scene = "plant"
    /\ Len(ov_layers) = 2
    /\ Len(ov_layers[1]) = 1
    /\ Len(ov_last.overlay.badges) = 3
    /\ C10_Placed(LastLayer) = << [target |-> 1, text |-> "source"],
                                  [target |-> 6, text |-> "asset"] >>


(***************************************************************************)
(* C11.  After applyOverlay(root, overlay) the elements carrying a         *)
(* highlight marker are exactly the elements matching at least one         *)
(* selector of overlay.highlight or of any path's selector set: all        *)
(* matches of each selector, not only the first.                           *)
(***************************************************************************)
C11_Marked ==
    {i \in DOMAIN ov_classes :
       Occurrences(ov_classes[i], "hl-primary") + Occurrences(ov_classes[i], "hl-warning") > 0}

C11_Selectors(overlay) ==
    {overlay.highlight[k] : k \in DOMAIN overlay.highlight}
    \cup UNION {{overlay.paths[p].selectors[k] : k \in DOMAIN overlay.paths[p].selectors} :
                  p \in DOMAIN overlay.paths}

C11_Called(sel) ==
    {i \in DOMAIN ov_classes :
       \/ sel.kind = "id" /\ SceneDocs[ov_scene].els[i].id = sel.name
       \/ sel.kind = "class" /\ Occurrences(ov_classes[i], sel.name) > 0}

C11_Expected == UNION {C11_Called(sel) : sel \in C11_Selectors(ov_last.overlay)}

C11_MarkedExactlyAddressed ==
    ov_last.op \in {"apply", "effect", "viewer-apply", "viewer-load"} =>
        C11_Marked = C11_Expected

\* The part of C11 the code does keep: PidViewer.applyOverlay marks exactly the
\* matches of the highlight and path selectors, and the first applyPidOverlay
\* on a diagram marks exactly the matches of the highlight selectors.
C11_MarkedExactlyAddressedByViewer ==
    /\ ov_last.op \in {"viewer-apply", "viewer-load"} => C11_Marked = C11_Expected
    /\ (ov_last.op \in {"apply", "effect"}
        /\ (ov_last.op = "apply" => ov_ops = 1)
        /\ ov_last.overlay.paths = <<>>) => C11_Marked = C11_Expected


(***************************************************************************)
(* C12.  For badges whose selectors match, the badges appear in the badge  *)
(* layer in the order of overlay.badges, and each badge has its type as    *)
(* text and carries the class pid-badge-<type> in addition to pid-badge.   *)
(***************************************************************************)
\* 'pid-badge-' + type, for the badge types in use.
C12_TypeClass(type) ==
    IF type = "asset" THEN "pid-badge-asset"
    ELSE IF type = "source" THEN "pid-badge-source"
    ELSE "pid-badge-"

\* The types of the entries that have a match, in the order of overlay.badges.
C12_MatchedTypes ==
    LET kept == SelectSeq(ov_last.overlay.badges,
                          LAMBDA b : C11_Called(b.selector) # {})
    IN  [k \in DOMAIN kept |-> kept[k].type]

C12_BadgesInOrderWithText ==
    ov_last.op \in {"apply", "effect"} =>
        [k \in DOMAIN LastLayer |-> LastLayer[k].text] = C12_MatchedTypes

C12_BadgesTypedInOrder ==
    ov_last.op \in {"apply", "effect"} =>
        /\ [k \in DOMAIN LastLayer |-> LastLayer[k].text] = C12_MatchedTypes
        /\ \A k \in DOMAIN LastLayer :
             /\ Occurrences(LastLayer[k].className, "pid-badge") = 1
             /\ Occurrences(LastLayer[k].className, C12_TypeClass(LastLayer[k].text)) = 1


(***************************************************************************)
(* C13.  Each pointer move during a drag adds the pointer's displacement   *)
(* since the previous pointer event to translate and leaves scale          *)
(* unchanged, also when wheel-zoom events interleave with the drag;        *)
(* pointer moves while no drag is active change neither.                   *)
(***************************************************************************)
C13_MoveStep == pv_ops' # pv_ops /\ pv_last'.op = "mousemove"

\* translate + (p - q)
C13_Shifted(translate, p, q) ==
    [x |-> Add(translate.x, FromInt(p[1] - q[1])),
     y |-> Add(translate.y, FromInt(p[2] - q[2]))]

C13_PanLaw(previousEvents) ==
    C13_MoveStep =>
        /\ pv_scale' = pv_scale
        /\ ~pv_dragging => pv_translate' = pv_translate
        /\ (pv_dragging /\ pv_last.op \in previousEvents) =>
              pv_translate' = C13_Shifted(pv_translate, pv_last'.p, pv_last.p)

C13_DragAddsDisplacement ==
    [][ C13_PanLaw({"mousedown", "mousemove", "wheel"}) ]_vars

\* The part of C13 the code does keep: the law holds when the previous pointer
\* event of the drag is the mouse-down or a move.
C13_DragAddsDisplacementWithoutWheel ==
    [][ C13_PanLaw({"mousedown", "mousemove"}) ]_vars


(***************************************************************************)
(* C14.  From every reachable viewport state, keyboardZoom(direction)      *)
(* changes scale by the same step as a wheel zoom in that direction,       *)
(* clamped to [minScale, maxScale], and leaves translate unchanged.        *)
(***************************************************************************)
C14_KeyStep == pv_ops' # pv_ops /\ pv_last'.op = "key" /\ pv_last'.src \in {"+", "=", "-"}

\* The scale a wheel zoom in the direction of the key gives.
C14_WheelStep(scale, key) ==
    LET stepped == Mul(scale, IF key = "-" THEN <<9, 10>> ELSE <<11, 10>>)
    IN  IF IsNaN(stepped) THEN stepped
        ELSE IF Lt(stepped, <<1, 10>>) THEN <<1, 10>>
        ELSE IF Gt(stepped, <<10, 1>>) THEN <<10, 1>>
        ELSE stepped

C14_KeyZoomsLikeWheel ==
    [][ C14_KeyStep =>
          /\ pv_scale' = C14_WheelStep(pv_scale, pv_last'.src)
          /\ pv_translate' = pv_translate ]_vars

\* The part of C14 the code does keep: from a scale within [minScale, maxScale]
\* the key zooms by the clamped wheel step.
C14_KeyZoomsLikeWheelInRange ==
    [][ (C14_KeyStep /\ Le(<<1, 10>>, pv_scale) /\ Le(pv_scale, <<10, 1>>)) =>
          /\ pv_scale' = C14_WheelStep(pv_scale, pv_last'.src)
          /\ pv_translate' = pv_translate ]_vars


(***************************************************************************)
(* C15.  The viewport starts at the identity state (scale 1, translate     *)
(* (0, 0)) at mount, and reset() restores exactly that state from any      *)
(* reachable viewport state.                                               *)
(***************************************************************************)
C15_ResetRestoresIdentity ==
    pv_last.op \in {"mount", "reset"} =>
        /\ pv_scale = <<1, 1>>
        /\ pv_translate = [x |-> <<0, 1>>, y |-> <<0, 1>>]

\* Reset pressed in the middle of a drag that began on the fitted diagram
\* "small" (scale 10, translate (100, -50)): the drag origin still shows where
\* the viewport was.
C15_Witness ==
    /\ pv_last.op = "reset"
    /\ pv_ops = 3
    /\ pv_svg = "small"
    /\ pv_dragging
    /\ pv_dragStart = [x |-> <<-100, 1>>, y |-> <<50, 1>>]
    /\ pv_scale = <<1, 1>>


(***************************************************************************)
(* C16.  When fetching the diagram fails (transport error or non-success   *)
(* response), a failure notice is surfaced, the diagram area is left empty *)
(* (no element is rendered, including none from a previously loaded        *)
(* document), and no automatic retry is issued.                            *)
(***************************************************************************)
C16_FailedLoadStep == pt_ops' # pt_ops /\ pt_last'.op = "loadfail"

C16_NoticeAndNoRetry ==
    /\ pt_toasts' = pt_toasts + 1
    /\ pt_inflight' = pt_inflight \ {pt_last'.src}

C16_FailedLoadLeavesAreaEmpty ==
    [][ C16_FailedLoadStep =>
          /\ C16_NoticeAndNoRetry
          /\ pt_tile' = <<>> ]_vars

\* The part of C16 the code does keep: the notice is surfaced and no fetch is
\* issued again.
C16_FailedLoadNotifiesWithoutRetry ==
    [][ C16_FailedLoadStep => C16_NoticeAndNoRetry ]_vars

(***************************************************************************)
(* C17.  Loading a successfully fetched document that is not a well-formed *)
(* diagram (it has no root frame) fails with ParseError: a failure notice  *)
(* is surfaced and no element is indexed or rendered.                      *)
(***************************************************************************)
\* A fetched body with no svg root, or an svg root with no viewBox.
C17_MalformedLoadStep == pt_ops' # pt_ops /\ pt_last'.op \in {"loadnosvg", "load"}

C17_MalformedLoadFails ==
    [][ C17_MalformedLoadStep =>
          /\ pt_toasts' = pt_toasts + 1
          /\ pt_elements' = <<>>
          /\ pt_tile' = <<>> ]_vars

\* What the code does instead for a body without an svg: nothing at all.
C17_NoSvgIsIgnored ==
    [][ (pt_ops' # pt_ops /\ pt_last'.op = "loadnosvg") =>
          UNCHANGED <<pt_toasts, pt_elements, pt_tile, pt_scale, pt_translate>> ]_vars


(***************************************************************************)
(* C18.  An unmeasured container (width and height 0) yields an empty tile *)
(* and no error on tile recomputation, for every viewport state and every  *)
(* element index.                                                          *)
(***************************************************************************)
C18_Unmeasured == pt_container.w = 0 /\ pt_container.h = 0

C18_UnmeasuredTileIsEmpty ==
    (pt_last.op = "tiles" /\ C18_Unmeasured) => pt_tile = <<>>


(***************************************************************************)
(* C19.  applyOverlay on a mounted diagram that has no root element        *)
(* changes nothing and raises no error, for every overlay.                 *)
(***************************************************************************)
\* A step in which PidTab or PidViewer applies its overlay while the container
\* holds no svg root.
C19_AppliedWithoutRoot ==
    /\ ov_ops' # ov_ops
    /\ ov_host \in {"tab", "viewer"}
    /\ ov_last'.op # "svg"
    /\ ~ov_mounted'

C19_NoRootIsNoOp ==
    [][ C19_AppliedWithoutRoot =>
          UNCHANGED <<ov_classes, ov_layers, ov_result, ov_warnings, ov_highlighted>> ]_vars

\* PidTab: the document has been mounted, it has no svg, and the effect ran for
\* an overlay that asks for badges.
C19_Witness ==
    /\ ov_host = "tab"
    /\ ov_scene = "nosvg"
    /\ ~ov_inflight
    /\ ~ov_mounted
    /\ ov_last.op = "effect-skip"
    /\ ov_data.value.badges # <<>>
    /\ ov_layers = <<>>


(***************************************************************************)
(* C20.  After the diagram has loaded, the diagram root carries the class  *)
(* hl-primary exactly when the current highlight input is 'primary' and    *)
(* hl-warning exactly when it is 'warning' (never both, neither when it is *)
(* null), for any sequence of highlight changes, including changes made    *)
(* while the diagram fetch is still in flight.                             *)
(***************************************************************************)
C20_RootClassFollowsHighlight ==
    pv_svg # "none" =>
        /\ ("hl-primary" \in pv_rootClass) <=> (pv_highlight = "primary")
        /\ ("hl-warning" \in pv_rootClass) <=> (pv_highlight = "warning")

\* The part of C20 the code does keep: right after a highlight change on a
\* loaded diagram the root carries the class of the new highlight.
C20_RootClassFollowsHighlightChange ==
    (pv_svg # "none" /\ pv_last.op = "highlight") =>
        /\ ("hl-primary" \in pv_rootClass) <=> (pv_highlight = "primary")
        /\ ("hl-warning" \in pv_rootClass) <=> (pv_highlight = "warning")


(***************************************************************************)
(* C21.  After a diagram load, every element carrying a non-empty title    *)
(* has that text as the aria-label of its nearest interactive ancestor     *)
(* (the element the title belongs to), and that ancestor has tabindex 0;   *)
(* the annotation is made by the load and by nothing else: no later        *)
(* highlight change or viewport operation alters it.                       *)
(***************************************************************************)
C21_Labelled ==
    LET els == ViewerDocs[pv_svg].els
    IN  \A j \in DOMAIN els :
          (els[j].tag = "title" /\ els[j].text # "") =>
              /\ pv_aria[els[j].parent].label = els[j].text
              /\ pv_aria[els[j].parent].tabindex = "0"

C21_TitlesBecomeLabels ==
    [][ /\ pv_svg' # "none" => C21_Labelled'
        /\ pv_aria' # pv_aria => pv_last'.op \in {"load", "loadfit"} ]_vars

\* "small" has loaded and the highlight has changed since: the root is
\* labelled by its own title, the inner group by the title nested in it, and
\* the group between them by neither.
C21_Witness ==
    /\ pv_svg = "small"
    /\ pv_last.op = "highlight"
    /\ pv_aria[0].label = "Overview"
    /\ pv_aria[3].label = "Nested"
    /\ pv_aria[3].tabindex = "0"
    /\ pv_aria[2] = NoAria


(***************************************************************************)
(* C22.  applyOverlay(root, O1) followed by applyOverlay(root, O2) leaves  *)
(* exactly the annotation state that applyOverlay(root, O2) produces on an *)
(* un-annotated diagram: no highlight marker and no badge layer that only  *)
(* O1 called for remains.                                                  *)
(***************************************************************************)
\* The class lists of the diagram as served.
C22_Unannotated ==
    [i \in DOMAIN SceneDocs[ov_scene].els |-> SceneDocs[ov_scene].els[i].cls]

\* A call that follows an earlier call on the same diagram.
C22_SecondCall(ops) ==
    /\ ov_ops' # ov_ops
    /\ ov_last.op \in ops
    /\ ov_last'.op \in ops

\* The state after the step is the one the step's overlay gives on the
\* diagram as served.
C22_AsOnUnannotated ==
    LET els == SceneDocs[ov_scene].els
    IN  IF ov_host = "viewer"
        THEN ov_classes' = viewerApplyOverlay(els, C22_Unannotated, <<>>,
                                              Defined(ov_last'.overlay)).classes
        ELSE LET r == applyPidOverlay(els, C22_Unannotated, <<>>, ov_last'.overlay)
             IN  ov_classes' = r.classes /\ ov_layers' = r.layers

C22_SecondCallReplacesFirst ==
    [][ C22_SecondCall({"apply", "effect", "viewer-apply", "viewer-load"})
          => C22_AsOnUnannotated ]_vars

\* The part of C22 the code does keep: the overlay effect of PidTab and the
\* applyOverlay of PidViewer clear what the previous call left.
C22_SecondCallReplacesFirstInComponents ==
    [][ C22_SecondCall({"effect", "viewer-apply", "viewer-load"})
          => C22_AsOnUnannotated ]_vars


(***************************************************************************)
(* C23.  If the source identifier changes from A to B while A's fetch is   *)
(* in flight, A's response, whenever it resolves (also after B's), is      *)
(* discarded: it never replaces the element index, the mounted diagram or  *)
(* the fitted viewport that belong to B.                                   *)
(***************************************************************************)
\* A load settles for a source that is no longer the src prop.
C23_StaleSettle ==
    /\ pt_ops' # pt_ops
    /\ pt_last'.op \in {"loadfail", "loadnosvg", "load", "loadfit"}
    /\ pt_last'.src # pt_src

\* The index holds the elements of the current source.
C23_IndexIsCurrent == pt_elements # <<>> /\ \A k \in DOMAIN pt_elements : pt_elements[k].src = pt_src

C23_StaleResponseDiscarded ==
    [][ (C23_StaleSettle /\ C23_IndexIsCurrent) =>
          UNCHANGED <<pt_elements, pt_scale, pt_translate>> ]_vars


(***************************************************************************)
(* C24.  After the last event of any burst of viewport changes (pan, zoom, *)
(* fit), provided the controller stays mounted, a tile recomputation       *)
(* eventually runs, and it uses the final scale and translate of the burst *)
(* rather than the values of an earlier event.                             *)
(***************************************************************************)
\* No recomputation is pending, and the last one used the scale and translate
\* the viewport has now.
C24_Settled ==
    /\ pt_timers = {}
    /\ pt_recomputes = 1
    /\ pt_viewBox = << Div(Neg(pt_translate.x), pt_scale),
                       Div(Neg(pt_translate.y), pt_scale),
                       Div(FromInt(pt_container.w), pt_scale),
                       Div(FromInt(pt_container.h), pt_scale) >>

C24_BurstEndsInRecomputation ==
    (pt_timers # {}) ~> (~pt_mounted \/ C24_Settled)

\* A burst of the mount, a fit and a wheel zoom, answered by one recomputation
\* at the zoomed viewport.
C24_Witness ==
    /\ pt_mounted
    /\ pt_last.op = "tiles"
    /\ pt_burst >= 3
    /\ pt_elements # <<>>
    /\ pt_scale = <<11, 5>>
    /\ C24_Settled


(***************************************************************************)
(* C25.  After the source identifier changes from A to B and B's load      *)
(* succeeds, the element index holds only B's elements with B's bounding   *)
(* boxes, and the rendered tile eventually contains only B's elements: no  *)
(* element, bounding box or annotation of A remains.                       *)
(***************************************************************************)
\* The load of the current source has just succeeded and no other fetch is
\* in flight.
C25_CurrentLoaded(ops) ==
    /\ pt_mounted
    /\ pt_last.op \in ops
    /\ pt_last.src = pt_src
    /\ pt_inflight = {}

\* The index is that of the current source: its measured elements in document
\* order, each with its own box.
C25_IndexOfCurrent ==
    /\ \A k \in DOMAIN pt_elements :
         /\ pt_elements[k].src = pt_src
         /\ pt_elements[k].bbox = getBBox(SceneDocs[pt_src].els, pt_elements[k].el)
    /\ \A k \in DOMAIN pt_elements : \A l \in DOMAIN pt_elements :
         k < l => pt_elements[k].el < pt_elements[l].el

C25_TileOfCurrent == \A k \in DOMAIN pt_tile : pt_tile[k].src = pt_src

\* The source is changed again or the component is unmounted.
C25_Superseded == ~pt_mounted \/ pt_inflight # {}

C25_Replaced(ops) ==
    /\ [](C25_CurrentLoaded(ops) => C25_IndexOfCurrent)
    /\ C25_CurrentLoaded(ops) ~> (C25_TileOfCurrent \/ C25_Superseded)

C25_DocumentReplacedWholesale == C25_Replaced({"load", "loadfit"})

\* The part of C25 the code does keep: when the new document has a viewBox, the
\* fit that ends its load schedules the recomputation that renders it.
C25_DocumentReplacedWhenFitted == C25_Replaced({"loadfit"})


(***************************************************************************)
(* C26.  After the controller is unmounted, also while a diagram fetch or  *)
(* a debounce timer is still pending, no later fetch resolution and no     *)
(* later timer expiry changes the viewport state, the element index or the *)
(* rendered tile.                                                          *)
(***************************************************************************)
C26_NothingChangesAfterUnmount ==
    [][ ~pt_mounted =>
          UNCHANGED <<pt_scale, pt_translate, pt_elements, pt_viewBox, pt_tile>> ]_vars

\* Unmounted with the fetch of "plant" in flight and the first timer pending:
\* the fetch has resolved since, then the timer has expired.
C26_Witness ==
    /\ ~pt_mounted
    /\ pt_src = "plant"
    /\ pt_ops = 2
    /\ pt_inflight = {}
    /\ pt_toasts = 0
    /\ pt_last.op = "tiles-skip"
    /\ pt_elements = <<>>
    /\ pt_tile = <<>>


(***************************************************************************)
(* C27.  Once both the diagram fetch and the overlay data have resolved,   *)
(* in either order, and also when the overlay input changed while the      *)
(* diagram fetch was in flight, the mounted diagram carries the            *)
(* annotations of the latest resolved overlay (its highlight markers and   *)
(* badges) and none of an earlier one, without any further user input.     *)
(* (No step of the compositor is pending once both have resolved, so       *)
(* "eventually" is "in that state".)                                       *)
(***************************************************************************)
\* The diagram is mounted and the component has its overlay.
C27_BothResolved ==
    /\ ov_host \in {"tab", "viewer"}
    /\ ~ov_inflight
    /\ ov_mounted
    /\ ov_host = "tab" => ov_data.defined

\* The badges of all badge layers of the root.
RECURSIVE C27_Badges(_)
C27_Badges(layers) ==
    IF layers = <<>> THEN <<>> ELSE Head(layers) \o C27_Badges(Tail(layers))

\* The diagram carries the markers and the badges that the latest overlay gives
\* on the diagram as served.
C27_LatestOverlayShown ==
    LET els == SceneDocs[ov_scene].els
    IN  IF ov_host = "viewer"
        THEN ov_classes = viewerApplyOverlay(els, C22_Unannotated, <<>>, ov_overlay).classes
        ELSE LET r == applyPidOverlay(els, C22_Unannotated, <<>>,
                                      tabOverlay(ov_data.value, ov_showSourcePath,
                                                 ov_showSimFails))
             IN  ov_classes = r.classes /\ C27_Badges(ov_layers) = C27_Badges(r.layers)

C27_LatestOverlayApplied == C27_BothResolved => C27_LatestOverlayShown

\* The part of C27 the code does keep: the latest overlay is shown once an
\* overlay effect has run on the mounted diagram, and after a load during
\* which the overlay prop of PidViewer did not change.
C27_LatestOverlayAppliedByEffect ==
    (C27_BothResolved
     /\ \/ ov_last.op \in {"effect", "viewer-apply"}
        \/ ov_host = "viewer" /\ ov_fetchOverlay = ov_overlay)
    => C27_LatestOverlayShown


(***************************************************************************)
(* C28.  If applyOverlay fails part-way (for example on a selector that    *)
(* cannot be evaluated), the failure is non-fatal and the diagram's        *)
(* annotation state afterwards is either the complete previously valid     *)
(* overlay or empty: never a partial mix of markers and badges.            *)
(***************************************************************************)
\* A call of applyPidOverlay that ended with an exception.
C28_FailedCall == ov_ops' # ov_ops /\ ov_last'.op = "apply-throw"

C28_FailureLeavesPreviousOrEmpty ==
    [][ C28_FailedCall =>
          \/ ov_classes' = ov_classes /\ ov_layers' = ov_layers
          \/ ov_classes' = C22_Unannotated /\ C27_Badges(ov_layers') = <<>> ]_vars


(***************************************************************************)
(* C29.  For a successfully fetched diagram, the flattened index contains, *)
(* in document order, exactly the elements whose geometry measurement      *)
(* succeeded; an element whose measurement fails is omitted and the load   *)
(* still completes: the index is installed and the view is fitted (to the  *)
(* frame the document declares), with no failure notice.                   *)
(***************************************************************************)
\* A load of a fetched diagram has run to its end.
C29_LoadedStep == pt_ops' # pt_ops /\ pt_last'.op \in {"load", "loadfit"}

\* The positions, in document order, of the elements that can be measured:
\* the shapes and the groups.
C29_Measured(els) ==
    SelectSeq([i \in DOMAIN els |-> i], LAMBDA i : els[i].tag \in {"rect", "g"})

C29_UnmeasuredElementsOmitted ==
    [][ C29_LoadedStep =>
          LET doc == SceneDocs[pt_last'.src]
          IN  /\ [k \in DOMAIN pt_elements' |-> pt_elements'[k].el] = C29_Measured(doc.els)
              /\ pt_toasts' = pt_toasts
              /\ doc.viewBox # <<>> =>
                   /\ pt_last'.op = "loadfit"
                   /\ pt_scale' = fitTransform(pt_container, doc.viewBox).scale
                   /\ pt_translate' = fitTransform(pt_container, doc.viewBox).translate ]_vars

\* "plant" loaded into the 200x100 container: its title is left out of the
\* index, the five shapes and groups are in it, and the view is fitted.
C29_Witness ==
    /\ pt_last.op = "loadfit"
    /\ pt_last.src = "plant"
    /\ pt_container.w = 200
    /\ [k \in DOMAIN pt_elements |-> pt_elements[k].el] = <<1, 2, 4, 5, 6>>
    /\ pt_toasts = 0
    /\ pt_scale = <<2, 1>>


(***************************************************************************)
(* C30.  In any rebuilt tile each element of the loaded document is        *)
(* rendered at most once: no document element appears both as its own tile *)
(* entry and again inside the deep copy of an indexed ancestor.            *)
(***************************************************************************)
\* The ancestors of element i below the svg root.
RECURSIVE C30_Ancestors(_, _)
C30_Ancestors(els, i) ==
    IF els[i].parent = 0 THEN {}
    ELSE {els[i].parent} \cup C30_Ancestors(els, els[i].parent)

\* How many times element i of a document shows in the tile: as an entry of
\* its own, and inside the deep copy of every entry that is an ancestor of it.
C30_Renderings(src, i) ==
    Cardinality({k \in DOMAIN pt_tile :
                   /\ pt_tile[k].src = src
                   /\ \/ pt_tile[k].el = i
                      \/ pt_tile[k].el \in C30_Ancestors(SceneDocs[src].els, i)})

\* Stated for the tiles computed in a laid-out container at a finite, strictly
\* positive scale, where the visible rectangle is well defined.
C30_EachElementRenderedOnce ==
    (pt_last.op = "tiles" /\ pt_container.w > 0 /\ pt_container.h > 0
     /\ IsFinite(pt_scale) /\ Gt(pt_scale, FromInt(0))) =>
        \A src \in TileSrcs : \A i \in DOMAIN SceneDocs[src].els :
            C30_Renderings(src, i) <= 1

=============================================================================
